---- MODULE Spec2Model ----
(***************************************************************************)
(* pysimsearch: the single-shard inverted-index engine (SimpleMapSimIndex)  *)
(* and the sharding aggregator (SimIndexCollection), as a state machine.    *)
(* Engines are objects; every public call is one action that runs the whole *)
(* method, including the reconciliation pass an indexing call ends with.    *)
(* The pairwise comparison utilities of similarity.py work on the open      *)
(* files and term vectors held in sim. Calls followed statement by          *)
(* statement (interleaved index calls on one shard engine, the phases of an *)
(* aggregator indexing call) keep their position in run.                    *)
(***************************************************************************)
EXTENDS Integers, Sequences, FiniteSets, TLC

VARIABLES leaf, coll, ret, sim, run

vars == <<leaf, coll, ret, sim, run>>

(* ------------------------------ bounds --------------------------------- *)
\* documents committed over all shard engines
MaxDocs == 2
\* length of a collection's shard list
MaxShards == 2
\* items in one indexing batch
MaxBatch == 2
\* files handed to one pairwise comparison
MaxFiles == 3

(* --------------------------- the universe ------------------------------ *)
Leaves == {"s1", "s2"}
Colls == {"agg", "sub"}
Names == {"d1", "d2", "d3", "d4"}
Terms == {"A", "a", "b"}

\* content whose term vector cannot be derived (the reader raises)
BadBuffer == <<"#unreadable">>
\* the documents callers index: name (file name, url) -> content, as the
\* sequence of its whitespace-separated tokens
Corpus ==
  [n \in Names |-> IF n = "d1" THEN <<"b", "b">>
                   ELSE IF n = "d2" THEN <<"A", "a">> ELSE BadBuffer]
\* query term vectors
QueryVecs == {[t \in {"a"} |-> 1], [t \in {"a", "b"} |-> 1]}
\* Python's hash() of a document name
Hash ==
  [n \in Names |-> IF n = "d1" THEN 4 ELSE IF n = "d2" THEN 7
                   ELSE IF n = "d3" THEN 9 ELSE 6]
\* term vectors handed to the similarity measures
Vecs ==
  {[t \in {"a", "b", "c"} |-> IF t = "a" THEN 1 ELSE IF t = "b" THEN 2 ELSE 5],
   [t \in {"a", "c", "d"} |-> IF t = "a" THEN 1 ELSE IF t = "c" THEN 2 ELSE 3],
   [t \in {"a"} |-> 2], [t \in {"b", "d"} |-> 1], [t \in {} |-> 0]}
\* the files a caller compares: documents of the corpus that can be read
Readable == {n \in Names : Corpus[n] # BadBuffer}
\* document-frequency maps a caller may hand to a shard engine
DfMaps == {[t \in {} |-> 0], [t \in {"a"} |-> 3]}
\* what set_query_scorer may be handed: the name of a built-in strategy,
\* None ("none"), or a caller's strategy object whose hits name a document
\* id the engine does not know ("stray_hits")
Scorers == {"tfidf", "simple_count", "none", "stray_hits"}
\* custom sharding functions a caller may install
ShardFuncs == {"to_zero"}

NoErr == "ok"

(* ------------------------------ helpers -------------------------------- *)
EmptyMap == [k \in {} |-> 0]
Get(m, k, d) == IF k \in DOMAIN m THEN m[k] ELSE d
Put(m, k, v) == [x \in (DOMAIN m) \cup {k} |-> IF x = k THEN v ELSE m[x]]
Range(s) == {s[i] : i \in DOMAIN s}

RECURSIVE SumOver(_, _)
SumOver(f, S) ==
  IF S = {} THEN 0
  ELSE LET x == CHOOSE y \in S : TRUE IN f[x] + SumOver(f, S \ {x})

RECURSIVE Ascending(_)
Ascending(S) ==
  IF S = {} THEN <<>>
  ELSE LET m == CHOOSE y \in S : \A z \in S : y <= z
       IN <<m>> \o Ascending(S \ {m})

\* code-point order of the terms; dictionaries of terms are walked in it
TermRank == [t \in Terms |-> IF t = "A" THEN 1 ELSE IF t = "a" THEN 2 ELSE 3]
RECURSIVE TermsInOrder(_)
TermsInOrder(S) ==
  IF S = {} THEN <<>>
  ELSE LET m == CHOOSE y \in S : \A z \in S : TermRank[y] <= TermRank[z]
       IN <<m>> \o TermsInOrder(S \ {m})

\* str.lower()
lower(term) == IF term = "A" THEN "a" ELSE term

(* ------------------- external collaborators (leaf) --------------------- *)
\* doc_reader.term_vec: term -> number of occurrences in the content
term_vec(buffer) ==
  [t \in Range(buffer) |-> Cardinality({i \in DOMAIN buffer : buffer[i] = t})]

\* term_vec.l2_norm, kept squared (the sum of the squared weights)
l2_norm_sq(t_vec) ==
  SumOver([t \in DOMAIN t_vec |-> t_vec[t] * t_vec[t]], DOMAIN t_vec)

(* ----------------------------- similarity ------------------------------ *)
\* term_vec.dot_product, mag_intersect, mag_union (multisets: the union of
\* two multisets has the sum of their sizes)
dot_product(u, v) ==
  LET both == (DOMAIN u) \cap (DOMAIN v)
  IN SumOver([t \in both |-> u[t] * v[t]], both)
mag(A) == SumOver(A, DOMAIN A)
Min(x, y) == IF x <= y THEN x ELSE y
mag_intersect(A, B) ==
  LET both == (DOMAIN A) \cap (DOMAIN B)
  IN SumOver([t \in both |-> Min(A[t], B[t])], both)
mag_union(A, B) == mag(A) + mag(B)

\* x / y of two numbers: the quotient kept exact, or ZeroDivisionError.
\* A cosine is kept as num / sqrt(den_sq), a Jaccard value as num / den
Quotient(num, den, root) ==
  IF den = 0 THEN [err |-> "ZeroDivisionError", value |-> <<>>]
  ELSE [err |-> NoErr, value |-> [num |-> num, den |-> den, root |-> root]]

\* cosine_sim dividing by the squared norm of u alone
cosine_sim_one_norm(u, v) ==
  Quotient(dot_product(u, v), l2_norm_sq(u) * l2_norm_sq(u), TRUE)

\* cosine_sim: dot_product(u, v) / (l2_norm(u) * l2_norm(v))
cosine_sim(u, v) ==
  Quotient(dot_product(u, v), l2_norm_sq(u) * l2_norm_sq(v), TRUE)

jaccard_sim(A, B) == Quotient(mag_intersect(A, B), mag_union(A, B), FALSE)

\* an open file: what is left to read of it
OpenFile(n) == [rest |-> Corpus[n]]
\* doc_reader.term_vec(file): the term vector of what is left to read
read_term_vec(file) == term_vec(file.rest)
\* the file after it was read to its end
consumed(file) == [file EXCEPT !.rest = <<>>]

\* measure_similarity(file_a, file_b) on the i-th and j-th of the files:
\* both are read to their end, then compared with cosine_sim
measure_similarity(files, i, j) ==
  LET t_a == read_term_vec(files[i][2])
      after_a == [files EXCEPT ![i][2] = consumed(@)]
      t_b == read_term_vec(after_a[j][2])
      after_b == [after_a EXCEPT ![j][2] = consumed(@)]
  IN [files |-> after_b, sim |-> cosine_sim(t_a, t_b)]

\* the (i, j) pairs with i < j <= n in the order of the two nested loops
RECURSIVE PairsFrom(_, _, _)
PairsFrom(i, j, n) ==
  IF i >= n THEN <<>>
  ELSE IF j > n THEN PairsFrom(i + 1, i + 2, n)
  ELSE <<<<i, j>>>> \o PairsFrom(i, j + 1, n)

\* pairwise_compare_files: the state after the first k pairs
RECURSIVE compare_files(_, _, _)
compare_files(named_files, pairs, k) ==
  IF k = 0 THEN [files |-> named_files, similarities |-> <<>>, err |-> NoErr]
  ELSE LET st == compare_files(named_files, pairs, k - 1)
           i == pairs[k][1]
           j == pairs[k][2]
           m == measure_similarity(st.files, i, j)
       IN IF st.err # NoErr THEN st
          ELSE IF m.sim.err # NoErr
               THEN [st EXCEPT !.files = m.files, !.err = m.sim.err]
               ELSE [files |-> m.files,
                     similarities |-> Append(st.similarities,
                        <<st.files[i][1], st.files[j][1], m.sim.value>>),
                     err |-> NoErr]

pairwise_compare_files(named_files) ==
  LET pairs == PairsFrom(1, 2, Len(named_files))
  IN compare_files(named_files, pairs, Len(pairs))

\* pairwise_compare_filenames: both files are opened anew for every pair
RECURSIVE compare_filenames(_, _, _)
compare_filenames(filenames, pairs, k) ==
  IF k = 0 THEN [similarities |-> <<>>, err |-> NoErr]
  ELSE LET st == compare_filenames(filenames, pairs, k - 1)
           fname_a == filenames[pairs[k][1]]
           fname_b == filenames[pairs[k][2]]
           m == measure_similarity(<<<<fname_a, OpenFile(fname_a)>>,
                                     <<fname_b, OpenFile(fname_b)>>>>, 1, 2)
       IN IF st.err # NoErr THEN st
          ELSE IF m.sim.err # NoErr THEN [st EXCEPT !.err = m.sim.err]
               ELSE [st EXCEPT !.similarities =
                       Append(@, <<fname_a, fname_b, m.sim.value>>)]

pairwise_compare_filenames(filenames) ==
  LET pairs == PairsFrom(1, 2, Len(filenames))
  IN compare_filenames(filenames, pairs, Len(pairs))

(* ---------------------- SimpleMapSimIndex (leaf) ----------------------- *)
\* SimIndex.__init__ + SimpleMapSimIndex.__init__; an unset attribute
\* (None) is <<>>, a set one is <<value>>; docs is the history of indexed
\* (name, term vector) pairs, the k-th one being the document with id k-1
NewLeaf ==
  [N |-> 0, global_N |-> <<>>, lowercase |-> TRUE,
   name_to_docid_map |-> EmptyMap, docid_to_name_map |-> EmptyMap,
   term_index |-> EmptyMap, df_map |-> EmptyMap, doc_len_map |-> EmptyMap,
   global_df_map |-> <<>>, docs |-> <<>>, query_scorer |-> "tfidf"]

\* the case normalisation applied when config('lowercase') is on
Norm(lc, term) == IF lc THEN lower(term) ELSE term

\* postings_list answering with a placeholder posting for an unknown term
Leaf_postings_list_placeholder(ix, term) ==
  Get(ix.term_index, Norm(ix.lowercase, term), <<<<0, 0>>>>)

Leaf_postings_list(ix, term) ==
  Get(ix.term_index, Norm(ix.lowercase, term), <<>>)

\* next_docid one short: the id of the document indexed before is reused
next_docid_previous(ix) == IF ix.N = 0 THEN 0 ELSE ix.N - 1

\* the id given to the document being indexed
next_docid(ix) == ix.N

\* the df_map after the loop over the terms of t_vec: one increment per key
df_after(ix, t_vec) ==
  LET keys == {Norm(ix.lowercase, t) : t \in DOMAIN t_vec}
  IN [T \in (DOMAIN ix.df_map) \cup keys |->
        Get(ix.df_map, T, 0)
        + Cardinality({t \in DOMAIN t_vec : Norm(ix.lowercase, t) = T})]

\* the batched updates _add_vec builds: normalised term -> new postings
new_postings(ix, docid, t_vec) ==
  LET keys == {Norm(ix.lowercase, t) : t \in DOMAIN t_vec}
      ord == TermsInOrder(DOMAIN t_vec)
      hit(T) == SelectSeq(ord, LAMBDA t : Norm(ix.lowercase, t) = T)
  IN [T \in keys |-> [i \in 1..Len(hit(T)) |-> <<docid, t_vec[hit(T)[i]]>>]]

\* the merge done as map[key].extend(new): the stored list object itself
\* grows and stays the one stored
store_merged_in_place(old, new) ==
  [stored |-> old \o new, old |-> old \o new, same |-> TRUE]

\* line 151, self._term_index[term] = self.postings_list(term) + new_postings,
\* on the list object old stored so far: the list stored after it, the
\* contents of the old object after it, and whether the old object is still
\* the stored one. The + builds a new list and the assignment binds it
store_merged(old, new) ==
  [stored |-> old \o new, old |-> old, same |-> FALSE]

\* _add_vec: every updated term gets a new list, old postings + new ones
add_vec(ix, docid, t_vec) ==
  LET upd == new_postings(ix, docid, t_vec)
  IN [T \in (DOMAIN ix.term_index) \cup (DOMAIN upd) |->
        IF T \in DOMAIN upd
        THEN store_merged(Leaf_postings_list(ix, T), upd[T]).stored
        ELSE ix.term_index[T]]

\* a list object a caller got from postings_list, h, after _add_vec: key is
\* the term it was asked under, obj its contents, stored whether it is the
\* object the term index holds under key
held_after_add_vec(ix, docid, t_vec, h) ==
  LET upd == new_postings(ix, docid, t_vec)
  IN IF h.stored /\ h.key \in DOMAIN upd
     THEN LET m == store_merged(h.obj, upd[h.key])
          IN [h EXCEPT !.obj = m.old, !.stored = m.same]
     ELSE h

\* the loop body without the increment of _N
index_doc_no_count(ix, name, t_vec) ==
  LET docid == next_docid(ix)
  IN [ix EXCEPT
        !.name_to_docid_map = Put(ix.name_to_docid_map, name, docid),
        !.docid_to_name_map = Put(ix.docid_to_name_map, docid, name),
        !.df_map = df_after(ix, t_vec),
        !.term_index = add_vec(ix, docid, t_vec),
        !.doc_len_map = Put(ix.doc_len_map, docid, l2_norm_sq(t_vec)),
        !.docs = Append(ix.docs, [name |-> name, vec |-> t_vec])]

\* a caller outside index_files
Idle == [pc |-> "idle", name |-> "", t_vec |-> EmptyMap, docid |-> 0]

\* line 138 leaving _N as it is
count_doc_skipped(ix, name, t_vec) ==
  [ix EXCEPT !.docs = Append(ix.docs, [name |-> name, vec |-> t_vec])]

\* line 138, self._N += 1: the document is counted
count_doc(ix, name, t_vec) ==
  [ix EXCEPT !.N = ix.N + 1,
             !.docs = Append(ix.docs, [name |-> name, vec |-> t_vec])]

\* one statement of the loop body of index_files, run by a caller at
\* line c.pc with its locals name, t_vec and docid: the engine and the
\* caller after it
index_files_stmt(ix, c) ==
  IF c.pc = "127"
  THEN IF Corpus[c.name] = BadBuffer
       THEN [ix |-> ix, c |-> Idle, err |-> "IOError"]
       ELSE [ix |-> ix, err |-> NoErr,
             c |-> [c EXCEPT !.pc = "128", !.t_vec = term_vec(Corpus[c.name])]]
  ELSE IF c.pc = "128"
  THEN [ix |-> ix, err |-> NoErr,
        c |-> [c EXCEPT !.pc = "129", !.docid = next_docid(ix)]]
  ELSE IF c.pc = "129"
  THEN [ix |-> [ix EXCEPT !.name_to_docid_map = Put(@, c.name, c.docid)],
        err |-> NoErr, c |-> [c EXCEPT !.pc = "130"]]
  ELSE IF c.pc = "130"
  THEN [ix |-> [ix EXCEPT !.docid_to_name_map = Put(@, c.docid, c.name)],
        err |-> NoErr, c |-> [c EXCEPT !.pc = "131"]]
  ELSE IF c.pc = "131"
  THEN [ix |-> [ix EXCEPT !.df_map = df_after(ix, c.t_vec)],
        err |-> NoErr, c |-> [c EXCEPT !.pc = "136"]]
  ELSE IF c.pc = "136"
  THEN [ix |-> [ix EXCEPT !.term_index = add_vec(ix, c.docid, c.t_vec)],
        err |-> NoErr, c |-> [c EXCEPT !.pc = "137"]]
  ELSE IF c.pc = "137"
  THEN [ix |-> [ix EXCEPT !.doc_len_map = Put(@, c.docid, l2_norm_sq(c.t_vec))],
        err |-> NoErr, c |-> [c EXCEPT !.pc = "138"]]
  ELSE [ix |-> count_doc(ix, c.name, c.t_vec), err |-> NoErr, c |-> Idle]

\* the body of the loop of index_files for one document
index_doc(ix, name, t_vec) ==
  LET docid == next_docid(ix)
  IN [ix EXCEPT
        !.name_to_docid_map = Put(ix.name_to_docid_map, name, docid),
        !.docid_to_name_map = Put(ix.docid_to_name_map, docid, name),
        !.df_map = df_after(ix, t_vec),
        !.term_index = add_vec(ix, docid, t_vec),
        !.doc_len_map = Put(ix.doc_len_map, docid, l2_norm_sq(t_vec)),
        !.N = ix.N + 1,
        !.docs = Append(ix.docs, [name |-> name, vec |-> t_vec])]

\* index_files going on with the next document after a reader failure
RECURSIVE Leaf_index_files_resume(_, _)
Leaf_index_files_resume(ix, named_files) ==
  IF named_files = <<>> THEN [ix |-> ix, err |-> NoErr]
  ELSE LET nf == Head(named_files)
       IN IF nf[2] = BadBuffer
          THEN [ix |-> Leaf_index_files_resume(ix, Tail(named_files)).ix,
                err |-> "IOError"]
          ELSE Leaf_index_files_resume(index_doc(ix, nf[1], term_vec(nf[2])),
                                       Tail(named_files))

\* index_files: documents one after the other; a reader failure raises out
\* of the loop and leaves what was indexed before it
RECURSIVE Leaf_index_files(_, _)
Leaf_index_files(ix, named_files) ==
  IF named_files = <<>> THEN [ix |-> ix, err |-> NoErr]
  ELSE LET nf == Head(named_files)
       IN IF nf[2] = BadBuffer THEN [ix |-> ix, err |-> "IOError"]
          ELSE Leaf_index_files(index_doc(ix, nf[1], term_vec(nf[2])),
                                Tail(named_files))

\* the held list object h after index_files
RECURSIVE held_after_index_files(_, _, _)
held_after_index_files(ix, named_files, h) ==
  IF named_files = <<>> \/ Head(named_files)[2] = BadBuffer THEN h
  ELSE LET nf == Head(named_files)
           t_vec == term_vec(nf[2])
       IN held_after_index_files(
            index_doc(ix, nf[1], t_vec), Tail(named_files),
            held_after_add_vec(ix, next_docid(ix), t_vec, h))

\* map[key] of a dict: the value, or KeyError raised to the caller
Subscript(map, key) ==
  IF key \in DOMAIN map THEN [err |-> NoErr, value |-> <<map[key]>>]
  ELSE [err |-> "KeyError", value |-> <<>>]

Leaf_docid_to_name(ix, docid) == Subscript(ix.docid_to_name_map, docid)
Leaf_name_to_docid(ix, name) == Subscript(ix.name_to_docid_map, name)

\* a Python value used as a condition: None (<<>>), an empty dict and 0 are
\* false
TruthyMap(opt) == opt # <<>> /\ DOMAIN opt[1] # {}
TruthyInt(opt) == opt # <<>> /\ opt[1] # 0

set_global_df_map(ix, df_map) == [ix EXCEPT !.global_df_map = <<df_map>>]

\* get_doc_freq: df_map = self._global_df_map or self._df_map
get_doc_freq(ix, term) ==
  LET df_map == IF TruthyMap(ix.global_df_map) THEN ix.global_df_map[1]
                ELSE ix.df_map
  IN Get(df_map, term, 1)

get_doc_len(ix, docid) == Get(ix.doc_len_map, docid, 0)

\* the N query hands to the scoring strategy: self._global_N or self._N
query_N(ix) == IF TruthyInt(ix.global_N) THEN ix.global_N[1] ELSE ix.N

\* the (docid, score) pairs of the simple-count scoring strategy: a document
\* scores one per posting it has in the lists handed over; ascending docid
score_docs(postings_lists) ==
  LET ds == UNION {{postings_lists[i][2][j][1] :
                      j \in DOMAIN postings_lists[i][2]} :
                   i \in DOMAIN postings_lists}
      score(d) ==
        SumOver([i \in DOMAIN postings_lists |->
                   Cardinality({j \in DOMAIN postings_lists[i][2] :
                                  postings_lists[i][2][j][1] = d})],
                DOMAIN postings_lists)
      ord == Ascending(ds)
  IN [k \in DOMAIN ord |-> <<ord[k], score(ord[k])>>]

\* query: (name, score) pairs in the order the strategy yields them
Leaf_query(ix, query_vec) ==
  LET ord == TermsInOrder(DOMAIN query_vec)
      postings_lists ==
        [i \in DOMAIN ord |->
           <<Norm(ix.lowercase, ord[i]),
             Leaf_postings_list(ix, Norm(ix.lowercase, ord[i]))>>]
      hits == score_docs(postings_lists)
  IN [k \in DOMAIN hits |->
        <<ix.docid_to_name_map[hits[k][1]], hits[k][2]>>]

\* query as the caller experiences it: with no strategy installed the call
\* raises at once; otherwise the pairs the returned generator yields, and
\* the KeyError docid_to_name raises when a hit names an unknown id (the
\* stray hit comes last)
Leaf_query_run(ix, query_vec) ==
  IF ix.query_scorer = "none"
  THEN [err |-> "AttributeError", yielded |-> <<>>]
  ELSE [err |-> IF ix.query_scorer = "stray_hits" THEN "KeyError" ELSE NoErr,
        yielded |-> Leaf_query(ix, query_vec)]

(* ------------------- SimIndexCollection (aggregator) ------------------- *)
IsLeaf(o) == o \in Leaves

\* SimIndexCollection.__init__ on top of SimIndex.__init__
NewColl ==
  [shards |-> <<>>, shard_func |-> "default", _shard_func |-> <<>>,
   name_to_docid_map |-> EmptyMap, docid_to_name_map |-> EmptyMap,
   lowercase |-> TRUE, N |-> 0, global_N |-> <<>>, df_map |-> EmptyMap]

\* the state the operations below thread through: every engine, the error a
\* call raised (NoErr when none) and the calls made on shards so far
World(lf, cl) == [leaf |-> lf, coll |-> cl, err |-> NoErr, log |-> <<>>]

default_shard_func(co, shard_key) == Hash[shard_key] % Len(co.shards)

\* calling a sharding function object
apply_shard_func(f, co, key) ==
  IF f = "default" THEN default_shard_func(co, key) ELSE 0

\* self.shard_func(name), as the index_* methods evaluate it
shard_of(co, key) == apply_shard_func(co.shard_func, co, key)

set_shard_func(co, func) == [co EXCEPT !._shard_func = <<func>>]

\* sharded_input_map with the item assigned to the shard's slot, not appended
sharded_input_map_assign(co, named_string_buffers) ==
  LET sids == {shard_of(co, it[1]) : it \in Range(named_string_buffers)}
      mine(sid) ==
        SelectSeq(named_string_buffers, LAMBDA it : shard_of(co, it[1]) = sid)
  IN [sid \in sids |-> <<mine(sid)[Len(mine(sid))]>>]

\* sharded_input_map of index_string_buffers: shard id -> its items, in
\* input order
sharded_input_map(co, named_string_buffers) ==
  LET sids == {shard_of(co, it[1]) : it \in Range(named_string_buffers)}
  IN [sid \in sids |->
        SelectSeq(named_string_buffers, LAMBDA it : shard_of(co, it[1]) = sid)]

\* sharded_input_map of index_urls: shard id -> its urls, in input order
sharded_url_map(co, urls) ==
  LET sids == {shard_of(co, u) : u \in Range(urls)}
  IN [sid \in sids |-> SelectSeq(urls, LAMBDA u : shard_of(co, u) = sid)]

\* update_config(**d) / set_config on an engine of either kind; a
\* collection passes it on to its shards
RECURSIVE update_config(_, _, _)
RECURSIVE update_config_all(_, _, _)
update_config(w, o, lc) ==
  IF IsLeaf(o) THEN [w EXCEPT !.leaf[o].lowercase = lc]
  ELSE update_config_all([w EXCEPT !.coll[o].lowercase = lc],
                         w.coll[o].shards, lc)
update_config_all(w, shards, lc) ==
  IF shards = <<>> THEN w
  ELSE update_config_all(update_config(w, Head(shards), lc), Tail(shards), lc)

\* set_config(key, value) on the engine o: its own option, then, for a
\* collection, set_config on every shard
RECURSIVE set_config(_, _, _)
RECURSIVE set_config_all(_, _, _)
set_config(w, o, lc) ==
  IF IsLeaf(o) THEN [w EXCEPT !.leaf[o].lowercase = lc]
  ELSE set_config_all([w EXCEPT !.coll[o].lowercase = lc],
                      w.coll[o].shards, lc)
set_config_all(w, shards, lc) ==
  IF shards = <<>> THEN w
  ELSE set_config_all(set_config(w, Head(shards), lc), Tail(shards), lc)

\* add_shards extending the shard list without configuring the new shards
add_shards_unconfigured(w, c, sim_index_shards) ==
  [w EXCEPT !.coll[c].shards = @ \o sim_index_shards]

\* add_shards: the current configuration goes to each new shard, then the
\* shard list is extended
add_shards(w, c, sim_index_shards) ==
  LET w1 == update_config_all(w, sim_index_shards, w.coll[c].lowercase)
  IN [w1 EXCEPT !.coll[c].shards = @ \o sim_index_shards]

clear_shards(co) == [co EXCEPT !.shards = <<>>]

get_local_N(w, o) == IF IsLeaf(o) THEN w.leaf[o].N ELSE w.coll[o].N
get_local_df_map(w, o) ==
  IF IsLeaf(o) THEN w.leaf[o].df_map ELSE w.coll[o].df_map
get_name_to_docid_map(w, o) ==
  IF IsLeaf(o) THEN w.leaf[o].name_to_docid_map
  ELSE w.coll[o].name_to_docid_map

\* merge_df_map with the source's count stored over the target's
merge_df_map_overwrite(target, source) ==
  [t \in (DOMAIN target) \cup (DOMAIN source) |->
     IF t \in DOMAIN source THEN source[t] ELSE target[t]]

\* merge_df_map(target, source), as the target it leaves
merge_df_map(target, source) ==
  [t \in (DOMAIN target) \cup (DOMAIN source) |->
     Get(target, t, 0) + Get(source, t, 0)]

\* collect_global_N started from the global N the first shard already holds
collect_global_N_carried(w, shards) ==
  SumOver([i \in DOMAIN shards |-> get_local_N(w, shards[i])], DOMAIN shards)
  + (IF shards # <<>> /\ IsLeaf(shards[1])
        /\ w.leaf[shards[1]].global_N # <<>>
     THEN w.leaf[shards[1]].global_N[1] ELSE 0)

\* global_N after the collecting loop
RECURSIVE collect_global_N(_, _)
collect_global_N(w, shards) ==
  IF shards = <<>> THEN 0
  ELSE collect_global_N(w, SubSeq(shards, 1, Len(shards) - 1))
       + get_local_N(w, shards[Len(shards)])

\* global_df_map after the collecting loop
RECURSIVE collect_global_df_map(_, _)
collect_global_df_map(w, shards) ==
  IF shards = <<>> THEN EmptyMap
  ELSE merge_df_map(collect_global_df_map(w, SubSeq(shards, 1, Len(shards) - 1)),
                    get_local_df_map(w, shards[Len(shards)]))

\* one round of the broadcast loop: set_global_N, then set_global_df_map,
\* which on a collection raises NameError (sim_index_shards is not defined)
set_global_stats(w, o, global_N, global_df_map) ==
  IF IsLeaf(o)
  THEN [w EXCEPT !.leaf[o].global_N = <<global_N>>,
                 !.leaf[o].global_df_map = <<global_df_map>>]
  ELSE [w EXCEPT !.coll[o].global_N = <<global_N>>, !.err = "NameError"]

RECURSIVE broadcast(_, _, _, _)
broadcast(w, shards, global_N, global_df_map) ==
  IF shards = <<>> \/ w.err # NoErr THEN w
  ELSE broadcast(set_global_stats(w, Head(shards), global_N, global_df_map),
                 Tail(shards), global_N, global_df_map)

\* make_global_docid without the shard id
make_global_docid_local(shard_id, docid) == ToString(docid)

make_global_docid(shard_id, docid) ==
  ToString(shard_id) \o "-" \o ToString(docid)

\* the two maps the last loop of update_global_stats starts from
docid_maps_before(co) ==
  [name_to_docid_map |-> co.name_to_docid_map,
   docid_to_name_map |-> co.docid_to_name_map]

\* the entries of one shard written into the aggregator's two maps
merge_name_map(acc, shard_id, m) ==
  LET g(name) == make_global_docid(shard_id, m[name])
      gids == {g(n) : n \in DOMAIN m}
  IN [name_to_docid_map |->
        [n \in (DOMAIN acc.name_to_docid_map) \cup (DOMAIN m) |->
           IF n \in DOMAIN m THEN g(n) ELSE acc.name_to_docid_map[n]],
      docid_to_name_map |->
        [d \in (DOMAIN acc.docid_to_name_map) \cup gids |->
           IF d \in gids THEN CHOOSE n \in DOMAIN m : g(n) = d
           ELSE acc.docid_to_name_map[d]]]

\* the last loop of update_global_stats over the first k shards
RECURSIVE update_docid_maps(_, _, _)
update_docid_maps(w, c, k) ==
  IF k = 0 THEN docid_maps_before(w.coll[c])
  ELSE merge_name_map(update_docid_maps(w, c, k - 1), k - 1,
                      get_name_to_docid_map(w, w.coll[c].shards[k]))

Coll_update_global_stats(w, c) ==
  LET shards == w.coll[c].shards
      w0 == [w EXCEPT !.log = Append(@, [ev |-> "update_global_stats",
                                         coll |-> c])]
      w1 == broadcast(w0, shards, collect_global_N(w0, shards),
                      collect_global_df_map(w0, shards))
      maps == update_docid_maps(w1, c, Len(shards))
  IN IF w1.err # NoErr THEN w1
     ELSE [w1 EXCEPT !.coll[c].name_to_docid_map = maps.name_to_docid_map,
                     !.coll[c].docid_to_name_map = maps.docid_to_name_map]

\* the collecting loop of update_global_stats leaving after its first round
collect_finished_early(co, k) == k >= 1 \/ k = Len(co.shards)

\* the collecting loop (lines 255-259) has gone through every shard
collect_finished(co, k) == k = Len(co.shards)

\* one round of the collecting loop, on shard number k + 1: the three
\* locals global_N, global_df_map and name_to_docid_maps after it
collect_round(w, c, a) ==
  LET shard == w.coll[c].shards[a.k + 1]
  IN [a EXCEPT
        !.global_N = @ + get_local_N(w, shard),
        !.global_df_map = merge_df_map(@, get_local_df_map(w, shard)),
        !.name_to_docid_maps =
           [i \in (DOMAIN @) \cup {a.k} |->
              IF i = a.k THEN get_name_to_docid_map(w, shard) ELSE @[i]],
        !.k = @ + 1]

\* the last loop of update_global_stats over the collected name maps of the
\* first k shards
RECURSIVE merge_name_maps(_, _, _)
merge_name_maps(co, name_to_docid_maps, k) ==
  IF k = 0 THEN docid_maps_before(co)
  ELSE merge_name_map(merge_name_maps(co, name_to_docid_maps, k - 1), k - 1,
                      name_to_docid_maps[k - 1])

\* set_global_df_map on a collection: its loop names an undefined variable
Coll_set_global_df_map(w, c, df_map) == [w EXCEPT !.err = "NameError"]

RECURSIVE Coll_index_string_buffers(_, _, _)
RECURSIVE Coll_index_files(_, _, _)
RECURSIVE dispatch(_, _, _, _, _)

\* index_string_buffers / index_filenames of a shard of either kind; on a
\* shard engine both end in index_files, on a collection in its own routing
shard_index(w, o, method, items) ==
  IF IsLeaf(o)
  THEN LET named == IF method = "index_filenames"
                    THEN [i \in DOMAIN items |-> <<items[i], Corpus[items[i]]>>]
                    ELSE items
           r == Leaf_index_files(w.leaf[o], named)
       IN [w EXCEPT !.leaf[o] = r.ix, !.err = r.err]
  ELSE IF method = "index_filenames"
       THEN Coll_index_files(w, o,
              [i \in DOMAIN items |-> <<items[i], Corpus[items[i]]>>])
       ELSE Coll_index_string_buffers(w, o, items)

\* the loop going on to the next shard after a shard call raised
RECURSIVE dispatch_on(_, _, _, _, _)
dispatch_on(w, c, method, map, sids) ==
  IF sids = <<>> THEN w
  ELSE LET sid == Head(sids)
           w1 == [w EXCEPT !.log = Append(@,
                     [ev |-> "call", coll |-> c, shard_id |-> sid,
                      method |-> method, items |-> map[sid]])]
       IN dispatch_on(shard_index(w1, w.coll[c].shards[sid + 1], method,
                                  map[sid]),
                      c, method, map, Tail(sids))

\* the loop issuing one indexing call per shard id of the input map
dispatch(w, c, method, map, sids) ==
  IF sids = <<>> \/ w.err # NoErr THEN w
  ELSE LET sid == Head(sids)
           w1 == [w EXCEPT !.log = Append(@,
                     [ev |-> "call", coll |-> c, shard_id |-> sid,
                      method |-> method, items |-> map[sid]])]
       IN dispatch(shard_index(w1, w.coll[c].shards[sid + 1], method, map[sid]),
                   c, method, map, Tail(sids))

Coll_index_string_buffers(w, c, named_string_buffers) ==
  IF named_string_buffers # <<>> /\ w.coll[c].shards = <<>>
  THEN [w EXCEPT !.err = "ZeroDivisionError"]
  ELSE LET map == sharded_input_map(w.coll[c], named_string_buffers)
           w1 == dispatch(w, c, "index_string_buffers", map,
                          Ascending(DOMAIN map))
       IN IF w1.err # NoErr THEN w1 ELSE Coll_update_global_stats(w1, c)

Coll_index_files(w, c, named_files) ==
  IF \E i \in DOMAIN named_files : named_files[i][2] = BadBuffer
  THEN [w EXCEPT !.err = "IOError"]
  ELSE LET w1 == Coll_index_string_buffers(w, c, named_files)
       IN IF w1.err # NoErr THEN w1 ELSE Coll_update_global_stats(w1, c)

Coll_index_urls(w, c, urls) ==
  IF urls # <<>> /\ w.coll[c].shards = <<>>
  THEN [w EXCEPT !.err = "ZeroDivisionError"]
  ELSE LET map == sharded_url_map(w.coll[c], urls)
           w1 == dispatch(w, c, "index_filenames", map, Ascending(DOMAIN map))
       IN IF w1.err # NoErr THEN w1 ELSE Coll_update_global_stats(w1, c)

\* the sort without reverse=True: smaller score first
RECURSIVE sort_by_score_ascending(_)
sort_by_score_ascending(results) ==
  IF results = <<>> THEN <<>>
  ELSE LET n == Len(results)
           x == results[n]
           s == sort_by_score_ascending(SubSeq(results, 1, n - 1))
           before == SelectSeq(s, LAMBDA r : r[2] <= x[2])
           after == SelectSeq(s, LAMBDA r : r[2] > x[2])
       IN before \o <<x>> \o after

\* list.sort(key=itemgetter(1), reverse=True): stable, larger score first
RECURSIVE sort_by_score(_)
sort_by_score(results) ==
  IF results = <<>> THEN <<>>
  ELSE LET n == Len(results)
           x == results[n]
           s == sort_by_score(SubSeq(results, 1, n - 1))
           before == SelectSeq(s, LAMBDA r : r[2] >= x[2])
           after == SelectSeq(s, LAMBDA r : r[2] < x[2])
       IN before \o <<x>> \o after

\* the query calls the loop of query issues: one per entry of the shard list,
\* each handed the caller's query_vec
query_calls(co, query_vec) ==
  [i \in DOMAIN co.shards |-> [shard |-> co.shards[i], query_vec |-> query_vec]]

\* the gathering loop stopping after the first shard
gather_first(w, shards, query_vec) ==
  IF shards = <<>> THEN <<>>
  ELSE Leaf_query(w.leaf[Head(shards)], query_vec)

\* results.extend(shard.query(query_vec)) over the shards, in shard order
RECURSIVE Coll_query(_, _, _)
RECURSIVE gather(_, _, _)
gather(w, shards, query_vec) ==
  IF shards = <<>> THEN <<>>
  ELSE LET o == Head(shards)
       IN (IF IsLeaf(o) THEN Leaf_query(w.leaf[o], query_vec)
           ELSE Coll_query(w, o, query_vec))
          \o gather(w, Tail(shards), query_vec)

Coll_query(w, c, query_vec) ==
  sort_by_score(gather(w, w.coll[c].shards, query_vec))

Coll_docid_to_name(co, docid) == Subscript(co.docid_to_name_map, docid)
Coll_name_to_docid(co, name) == Subscript(co.name_to_docid_map, name)

\* the local postings of one shard with every id rewritten to a global id
rewrite_ids(shard_id, postings) ==
  [j \in DOMAIN postings |->
     <<make_global_docid(shard_id, postings[j][1]), postings[j][2]>>]

\* postings_list: merged_postings_list after the first k shards
RECURSIVE Coll_postings_list(_, _, _)
RECURSIVE merged_postings_list(_, _, _, _)
merged_postings_list(w, c, term, k) ==
  IF k = 0 THEN <<>>
  ELSE LET o == w.coll[c].shards[k]
       IN merged_postings_list(w, c, term, k - 1)
          \o rewrite_ids(k - 1, IF IsLeaf(o)
                                THEN Leaf_postings_list(w.leaf[o], term)
                                ELSE Coll_postings_list(w, o, term))

Coll_postings_list(w, c, term) ==
  merged_postings_list(w, c, term, Len(w.coll[c].shards))

\* query: the loop over the shards with results as extended so far; a
\* shard's failure ends it, after the pairs it yielded were taken in
RECURSIVE Coll_query_run(_, _, _)
RECURSIVE gather_run(_, _, _, _)
gather_run(w, shards, query_vec, results) ==
  IF shards = <<>> THEN [err |-> NoErr, results |-> results]
  ELSE LET o == Head(shards)
           r == IF IsLeaf(o) THEN Leaf_query_run(w.leaf[o], query_vec)
                ELSE LET cr == Coll_query_run(w, o, query_vec)
                     IN [err |-> cr.err, yielded |-> cr.value]
       IN IF r.err # NoErr
          THEN [err |-> r.err, results |-> results \o r.yielded]
          ELSE gather_run(w, Tail(shards), query_vec, results \o r.yielded)

\* query handing back what was gathered even though a shard failed
Coll_query_run_partial(w, c, query_vec) ==
  LET g == gather_run(w, w.coll[c].shards, query_vec, <<>>)
  IN [err |-> NoErr, value |-> sort_by_score(g.results)]

\* query as the caller experiences it: the sorted list, or the error
Coll_query_run(w, c, query_vec) ==
  LET g == gather_run(w, w.coll[c].shards, query_vec, <<>>)
  IN IF g.err # NoErr THEN [err |-> g.err, value |-> <<>>]
     ELSE [err |-> NoErr, value |-> sort_by_score(g.results)]

\* set_query_scorer installing the strategy on the first shard only
Coll_set_query_scorer_first(w, c, query_scorer) ==
  IF w.coll[c].shards = <<>> \/ ~IsLeaf(w.coll[c].shards[1]) THEN w
  ELSE [w EXCEPT !.leaf[w.coll[c].shards[1]].query_scorer = query_scorer]

\* set_query_scorer: the request goes to each shard, nothing is kept here
RECURSIVE Coll_set_query_scorer(_, _, _)
RECURSIVE set_query_scorer_all(_, _, _)
set_query_scorer_all(w, shards, query_scorer) ==
  IF shards = <<>> THEN w
  ELSE LET o == Head(shards)
           w1 == IF IsLeaf(o)
                 THEN [w EXCEPT !.leaf[o].query_scorer = query_scorer]
                 ELSE Coll_set_query_scorer(w, o, query_scorer)
       IN set_query_scorer_all(w1, Tail(shards), query_scorer)

Coll_set_query_scorer(w, c, query_scorer) ==
  set_query_scorer_all(w, w.coll[c].shards, query_scorer)

\* the engine after self._term_index.get(term, []) had the map create the
\* missing entry
term_index_get_inserting(ix, term) ==
  [ix |-> [ix EXCEPT !.term_index = Put(@, term, Get(@, term, <<>>))],
   value |-> Get(ix.term_index, term, <<>>)]

\* self._term_index.get(term, []) of line 168: the engine after it and the
\* list it gives
term_index_get(ix, term) ==
  [ix |-> ix, value |-> Get(ix.term_index, term, <<>>)]

\* a call of postings_list on a shard engine: the engine after it and the
\* list returned
Leaf_postings_list_call(ix, term) ==
  term_index_get(ix, Norm(ix.lowercase, term))

\* the engine after the loop of lines 181-183 of query over the terms ord
RECURSIVE Leaf_query_lists(_, _)
Leaf_query_lists(ix, ord) ==
  IF ord = <<>> THEN ix
  ELSE Leaf_query_lists(
         Leaf_postings_list_call(ix, Norm(ix.lowercase, Head(ord))).ix,
         Tail(ord))

\* a call of query on a shard engine, its generator read to the end: the
\* engine after it, the error raised and the pairs yielded
Leaf_query_call(ix, query_vec) ==
  LET ix1 == Leaf_query_lists(ix, TermsInOrder(DOMAIN query_vec))
      r == Leaf_query_run(ix1, query_vec)
  IN [ix |-> ix1, err |-> r.err, yielded |-> r.yielded]

\* the engines after the loop of lines 229-231 of the aggregator's query,
\* which ends at the first shard whose query raises
RECURSIVE query_effects(_, _, _)
query_effects(w, shards, query_vec) ==
  IF shards = <<>> THEN w
  ELSE LET o == Head(shards)
       IN IF IsLeaf(o)
          THEN LET r == Leaf_query_call(w.leaf[o], query_vec)
                   w1 == [w EXCEPT !.leaf[o] = r.ix]
               IN IF r.err # NoErr THEN w1
                  ELSE query_effects(w1, Tail(shards), query_vec)
          ELSE LET w1 == query_effects(w, w.coll[o].shards, query_vec)
               IN IF Coll_query_run(w, o, query_vec).err # NoErr THEN w1
                  ELSE query_effects(w1, Tail(shards), query_vec)

\* a call of query on the aggregator c: the engines after it, the error
\* raised and the list returned
Coll_query_call(w, c, query_vec) ==
  LET w1 == query_effects(w, w.coll[c].shards, query_vec)
      r == Coll_query_run(w1, c, query_vec)
  IN [w |-> w1, err |-> r.err, value |-> r.value]

\* the engines after the loop of lines 202-206 of the aggregator's
\* postings_list
RECURSIVE postings_list_effects(_, _, _)
postings_list_effects(w, shards, term) ==
  IF shards = <<>> THEN w
  ELSE LET o == Head(shards)
           w1 == IF IsLeaf(o)
                 THEN [w EXCEPT
                         !.leaf[o] = Leaf_postings_list_call(@, term).ix]
                 ELSE postings_list_effects(w, w.coll[o].shards, term)
       IN postings_list_effects(w1, Tail(shards), term)

\* a call of postings_list on the aggregator c: the engines after it and
\* the list returned
Coll_postings_list_call(w, c, term) ==
  LET w1 == postings_list_effects(w, w.coll[c].shards, term)
  IN [w |-> w1, value |-> Coll_postings_list(w1, c, term)]

(* ------------------------------ inputs --------------------------------- *)
Items == {<<n, Corpus[n]>> : n \in Names}
Batches == UNION {[1..n -> Items] : n \in 0..MaxBatch}
UrlBatches == UNION {[1..n -> Names] : n \in 0..MaxBatch}
\* the shard lists a collection may be given
ShardLists(members) == UNION {[1..n -> members] : n \in 1..MaxShards}
TotalDocs == SumOver([s \in Leaves |-> leaf[s].N], Leaves)
\* the batches a caller may still hand in: MaxDocs caps the documents held
OfferedBatches == {b \in Batches : TotalDocs + Len(b) <= MaxDocs}
OfferedUrls == {u \in UrlBatches : TotalDocs + Len(u) <= MaxDocs}

(* ------------------------------ actions -------------------------------- *)
\* the engines as they are now
W == World(leaf, coll)

\* ret is what the last call gave back: the error it raised (NoErr when it
\* returned), for a query the result list, and the calls it made on shards
Done(w, value) ==
  /\ leaf' = w.leaf
  /\ coll' = w.coll
  /\ ret' = [err |-> w.err, value |-> value, log |-> w.log]
  /\ UNCHANGED <<sim, run>>

\* no aggregator indexing call is in flight. pc: the loop the call is in;
\* map, sids: the input map and the shard ids still to call; k, global_N,
\* global_df_map, name_to_docid_maps: the locals of update_global_stats;
\* events: what the call did to its shards so far; start: the engines and
\* the batch the call began with
NoAgg ==
  [pc |-> "idle", map |-> EmptyMap, sids |-> <<>>, k |-> 0, global_N |-> 0,
   global_df_map |-> EmptyMap, name_to_docid_maps |-> EmptyMap,
   events |-> <<>>, start |-> <<>>]

\* the callers of index_files followed statement by statement
Procs == {"p1", "p2"}
\* no call is in flight and no caller holds a list (held). overlapped: two index calls were in flight on the
\* engine at once; assigned: the (name, docid) pairs of line 128 so far
NoRun ==
  [idx |-> [p \in Procs |-> Idle], overlapped |-> FALSE, assigned |-> <<>>,
   agg |-> NoAgg, held |-> <<>>]

\* nothing held for the similarity utilities
NoSim == [named_files |-> <<>>, u |-> EmptyMap, v |-> EmptyMap]

Init ==
  /\ leaf = [s \in Leaves |-> NewLeaf]
  /\ coll = [c \in Colls |-> NewColl]
  /\ ret = [err |-> NoErr, value |-> <<>>, log |-> <<>>]
  /\ sim = NoSim
  /\ run = NoRun

\* a caller indexes a batch directly into a shard engine
LeafIndexFiles(s, batch) ==
  /\ batch \in OfferedBatches
  /\ LET r == Leaf_index_files(leaf[s], batch)
     IN Done([W EXCEPT !.leaf[s] = r.ix, !.err = r.err], <<>>)

\* a caller hands a shard engine a global document-frequency map
LeafSetGlobalDfMap(s, df_map) ==
  /\ leaf[s].global_df_map # <<df_map>>
  /\ Done([W EXCEPT !.leaf[s] = set_global_df_map(@, df_map)], <<>>)

\* a caller hands a shard engine a global N
LeafSetGlobalN(s, n) ==
  /\ leaf[s].global_N # <<n>>
  /\ Done([W EXCEPT !.leaf[s].global_N = <<n>>], <<>>)

\* the calls in flight on the engine
InFlight == {p \in Procs : run.idx[p].pc # "idle"}

\* caller p enters index_files on engine s with one named file
IndexBegin(s, p, name) ==
  /\ run.idx[p].pc = "idle"
  /\ leaf[s].N + Cardinality(InFlight) < MaxDocs
  /\ run' = [run EXCEPT !.idx[p] = [Idle EXCEPT !.pc = "127", !.name = name],
                        !.overlapped = @ \/ InFlight # {}]
  /\ ret' = [err |-> NoErr, value |-> <<>>, log |-> <<>>]
  /\ UNCHANGED <<leaf, coll, sim>>

\* caller p runs its next statement
IndexStmt(s, p) ==
  /\ run.idx[p].pc # "idle"
  /\ LET r == index_files_stmt(leaf[s], run.idx[p])
     IN /\ leaf' = [leaf EXCEPT ![s] = r.ix]
        /\ run' = [run EXCEPT
                     !.idx[p] = r.c,
                     !.assigned = IF run.idx[p].pc = "128"
                                  THEN Append(@, <<r.c.name, r.c.docid>>)
                                  ELSE @]
        /\ ret' = [err |-> r.err, value |-> <<>>, log |-> <<>>]
  /\ UNCHANGED <<coll, sim>>

\* one thing an aggregator indexing call did to the shard numbered shard_id
Event(ev, shard_id, N, df_map) ==
  [ev |-> ev, shard_id |-> shard_id, N |-> N, df_map |-> df_map]

\* what is left of one step of the call in flight
AggStep(w, a) ==
  /\ leaf' = w.leaf
  /\ coll' = w.coll
  /\ ret' = [err |-> w.err, value |-> <<>>, log |-> <<>>]
  /\ run' = [run EXCEPT !.agg = a]
  /\ UNCHANGED sim

\* index_string_buffers on the aggregator c, lines 148-150: the input map
AggBegin(c, batch) ==
  /\ run.agg.pc = "idle"
  /\ batch \in OfferedBatches
  /\ coll[c].shards # <<>>
  /\ LET map == sharded_input_map(coll[c], batch)
     IN AggStep(W, [NoAgg EXCEPT
                      !.pc = "dispatch", !.map = map,
                      !.sids = Ascending(DOMAIN map),
                      !.start = <<[leaf |-> leaf, coll |-> coll,
                                   batch |-> batch]>>])

\* one round of the loop of lines 154-157: the call on the next shard has
\* returned or raised; after the last round the locals of
\* update_global_stats are set up (lines 252-254)
AggCall(c) ==
  /\ run.agg.pc = "dispatch"
  /\ LET a == run.agg
     IN IF a.sids = <<>>
        THEN AggStep(W, [a EXCEPT !.pc = "collect"])
        ELSE LET sid == Head(a.sids)
                 w == shard_index(W, coll[c].shards[sid + 1],
                                  "index_string_buffers", a.map[sid])
                 ev == Event(IF w.err = NoErr THEN "call" ELSE "raised",
                             sid, 0, EmptyMap)
             IN AggStep(w, [a EXCEPT
                              !.pc = IF w.err = NoErr THEN @ ELSE "idle",
                              !.sids = Tail(@),
                              !.events = Append(@, ev)])

\* one round of the collecting loop, lines 255-259
AggCollect(c) ==
  /\ run.agg.pc = "collect"
  /\ LET a == run.agg
     IN IF collect_finished(coll[c], a.k)
        THEN AggStep(W, [a EXCEPT !.pc = "broadcast", !.k = 0])
        ELSE AggStep(W, [collect_round(W, c, a) EXCEPT
                           !.events = Append(@, Event("read", a.k, 0,
                                                      EmptyMap))])

\* one round of the broadcasting loop, lines 262-264
AggBroadcast(c) ==
  /\ run.agg.pc = "broadcast"
  /\ LET a == run.agg
     IN IF a.k = Len(coll[c].shards)
        THEN AggStep(W, [a EXCEPT !.pc = "maps"])
        ELSE LET w == set_global_stats(W, coll[c].shards[a.k + 1],
                                       a.global_N, a.global_df_map)
             IN AggStep(w, [a EXCEPT
                              !.pc = IF w.err = NoErr THEN @ ELSE "idle",
                              !.k = @ + 1,
                              !.events = Append(@, Event("send", a.k,
                                            a.global_N, a.global_df_map))])

\* the last loop, lines 267-271, and the return
AggMaps(c) ==
  /\ run.agg.pc = "maps"
  /\ LET a == run.agg
         maps == merge_name_maps(coll[c], a.name_to_docid_maps,
                                 Len(coll[c].shards))
     IN AggStep([W EXCEPT
                   !.coll[c].name_to_docid_map = maps.name_to_docid_map,
                   !.coll[c].docid_to_name_map = maps.docid_to_name_map],
                [a EXCEPT !.pc = "idle",
                          !.events = Append(@, Event("maps", 0, 0,
                                                    EmptyMap))])

\* a caller calls postings_list on the engine s and keeps the list: the
\* stored object when the term has an entry, else a new empty list
HoldPostingsList(s, term) ==
  LET key == Norm(leaf[s].lowercase, term)
      r == Leaf_postings_list_call(leaf[s], term)
  IN /\ leaf' = [leaf EXCEPT ![s] = r.ix]
     /\ ret' = [err |-> NoErr, value |-> r.value, log |-> <<>>]
     /\ run' = [run EXCEPT !.held =
                  <<[engine |-> s, key |-> key, got |-> r.value,
                     obj |-> r.value,
                     stored |-> key \in DOMAIN leaf[s].term_index]>>]
     /\ UNCHANGED <<coll, sim>>

\* index_files on the engine s while a caller may hold one of its lists
IndexFilesHeld(s, batch) ==
  /\ batch \in OfferedBatches
  /\ LET r == Leaf_index_files(leaf[s], batch)
     IN /\ leaf' = [leaf EXCEPT ![s] = r.ix]
        /\ ret' = [err |-> r.err, value |-> <<>>, log |-> <<>>]
        /\ run' = IF run.held # <<>> /\ run.held[1].engine = s
                  THEN [run EXCEPT !.held[1] =
                          held_after_index_files(leaf[s], batch, @)]
                  ELSE run
  /\ UNCHANGED <<coll, sim>>

AddShards(c, new) ==
  /\ Len(coll[c].shards) + Len(new) <= MaxShards
  /\ Done(add_shards(W, c, new), <<>>)

ClearShards(c) ==
  /\ coll[c].shards # <<>>
  /\ Done([W EXCEPT !.coll[c] = clear_shards(@)], <<>>)

SetConfig(c, lc) ==
  /\ coll[c].lowercase # lc
  /\ Done(set_config(W, c, lc), <<>>)

UpdateConfig(c, lc) ==
  Done(update_config(W, c, lc), <<>>)

\* a caller configures a shard engine that is not (yet) a member of agg
LeafSetConfig(s, lc) ==
  /\ s \notin Range(coll["agg"].shards)
  /\ leaf[s].lowercase # lc
  /\ Done(set_config(W, s, lc), <<>>)

SetShardFunc(c, f) ==
  /\ coll[c]._shard_func # <<f>>
  /\ Done([W EXCEPT !.coll[c] = set_shard_func(@, f)], <<>>)

SetGlobalDfMap(c, s) ==
  Done(Coll_set_global_df_map(W, c, leaf[s].df_map), <<>>)

IndexStringBuffers(c, batch) ==
  /\ batch \in OfferedBatches
  /\ Done(Coll_index_string_buffers(W, c, batch), <<>>)

IndexFiles(c, batch) ==
  /\ batch \in OfferedBatches
  /\ Done(Coll_index_files(W, c, batch), <<>>)

IndexUrls(c, urls) ==
  /\ urls \in OfferedUrls
  /\ Done(Coll_index_urls(W, c, urls), <<>>)

UpdateGlobalStats(c) ==
  Done(Coll_update_global_stats(W, c), <<>>)

Query(c, query_vec) ==
  LET r == Coll_query_call(W, c, query_vec)
  IN Done([r.w EXCEPT !.err = r.err], r.value)

\* a caller queries a shard engine and reads the generator to the end
LeafQuery(s, query_vec) ==
  LET r == Leaf_query_call(leaf[s], query_vec)
  IN Done([W EXCEPT !.leaf[s] = r.ix, !.err = r.err],
          IF r.err = NoErr THEN r.yielded ELSE <<>>)

PostingsList(c, term) ==
  LET r == Coll_postings_list_call(W, c, term)
  IN Done(r.w, r.value)

LeafPostingsList(s, term) ==
  LET r == Leaf_postings_list_call(leaf[s], term)
  IN Done([W EXCEPT !.leaf[s] = r.ix], r.value)

SetQueryScorer(c, query_scorer) ==
  Done(Coll_set_query_scorer(W, c, query_scorer), <<>>)

\* a caller installs a strategy on a shard engine that is not a member
LeafSetQueryScorer(s, query_scorer) ==
  /\ s \notin Range(coll["agg"].shards)
  /\ leaf[s].query_scorer # query_scorer
  /\ Done([W EXCEPT !.leaf[s].query_scorer = query_scorer], <<>>)

\* the aggregator over shard engines
Next ==
  \/ \E s \in Leaves, b \in Batches : LeafIndexFiles(s, b)
  \/ \E new \in ShardLists(Leaves) : AddShards("agg", new)
  \/ ClearShards("agg")
  \/ \E b \in Batches : IndexStringBuffers("agg", b)
  \/ \E b \in Batches : IndexFiles("agg", b)
  \/ \E u \in UrlBatches : IndexUrls("agg", u)
  \/ UpdateGlobalStats("agg")

Spec == Init /\ [][Next]_vars

\* the aggregator with a caller-supplied sharding function
NextShardFunc ==
  \/ \E new \in ShardLists(Leaves) : AddShards("agg", new)
  \/ \E f \in ShardFuncs : SetShardFunc("agg", f)
  \/ \E b \in Batches : IndexStringBuffers("agg", b)
  \/ \E b \in Batches : IndexFiles("agg", b)
  \/ \E u \in UrlBatches : IndexUrls("agg", u)

SpecShardFunc == Init /\ [][NextShardFunc]_vars

\* the aggregator with the collection "sub" among its shards
NextNested ==
  \/ \E s \in Leaves : AddShards("sub", <<s>>)
  \/ \E new \in ShardLists(Leaves \cup {"sub"}) : AddShards("agg", new)
  \/ \E s \in Leaves : SetGlobalDfMap("sub", s)
  \/ \E b \in Batches : IndexStringBuffers("agg", b)
  \/ \E u \in UrlBatches : IndexUrls("agg", u)
  \/ UpdateGlobalStats("agg")

SpecNested == Init /\ [][NextNested]_vars

\* the aggregator serving queries
NextQuery ==
  \/ \E s \in Leaves, b \in Batches : LeafIndexFiles(s, b)
  \/ \E new \in ShardLists(Leaves) : AddShards("agg", new)
  \/ \E lc \in BOOLEAN : SetConfig("agg", lc)
  \/ \E b \in Batches : IndexStringBuffers("agg", b)
  \/ \E q \in QueryVecs : Query("agg", q)

SpecQuery == Init /\ [][NextQuery]_vars

\* the aggregator being configured while shards come and go
NextConfig ==
  \/ \E s \in Leaves, lc \in BOOLEAN : LeafSetConfig(s, lc)
  \/ \E s \in Leaves \ Range(coll["agg"].shards) : AddShards("sub", <<s>>)
  \/ \E new \in ShardLists(Leaves \cup {"sub"}) : AddShards("agg", new)
  \/ ClearShards("agg")
  \/ \E lc \in BOOLEAN : SetConfig("agg", lc)
  \/ \E lc \in BOOLEAN : UpdateConfig("agg", lc)

SpecConfig == Init /\ [][NextConfig]_vars

\* one shard engine used on its own
NextLeaf ==
  \/ \E s \in Leaves, b \in Batches : LeafIndexFiles(s, b)
  \/ \E s \in Leaves, m \in DfMaps : LeafSetGlobalDfMap(s, m)
  \/ \E s \in Leaves, n \in 0..MaxDocs : LeafSetGlobalN(s, n)

SpecLeaf == Init /\ [][NextLeaf]_vars

\* the named files a caller may open and hand to a comparison
NamedFiles ==
  UNION {{[i \in 1..n |-> <<f[i], OpenFile(f[i])>>] : f \in [1..n -> Readable]} :
           n \in 2..MaxFiles}

\* a caller holds freshly opened files and two term vectors
SimInit ==
  /\ leaf = [s \in Leaves |-> NewLeaf]
  /\ coll = [c \in Colls |-> NewColl]
  /\ ret = [err |-> NoErr, value |-> <<>>, log |-> <<>>]
  /\ sim \in [named_files : NamedFiles, u : Vecs, v : Vecs]
  /\ run = NoRun

\* the result of a similarity utility comes back in ret
SimDone(err, value, call, named_files) ==
  /\ ret' = [err |-> err, value |-> value, log |-> <<[ev |-> call]>>]
  /\ sim' = [sim EXCEPT !.named_files = named_files]
  /\ UNCHANGED <<leaf, coll, run>>

PairwiseCompareFiles ==
  /\ ret.log = <<>>
  /\ LET r == pairwise_compare_files(sim.named_files)
     IN SimDone(r.err, r.similarities, "pairwise_compare_files", r.files)

PairwiseCompareFilenames ==
  /\ ret.log = <<>>
  /\ LET r == pairwise_compare_filenames(
                 [i \in DOMAIN sim.named_files |-> sim.named_files[i][1]])
     IN SimDone(r.err, r.similarities, "pairwise_compare_filenames",
                sim.named_files)

CosineSim ==
  /\ ret.log = <<>>
  /\ LET r == cosine_sim(sim.u, sim.v)
     IN SimDone(r.err, r.value, "cosine_sim", sim.named_files)

JaccardSim ==
  /\ ret.log = <<>>
  /\ LET r == jaccard_sim(sim.u, sim.v)
     IN SimDone(r.err, r.value, "jaccard_sim", sim.named_files)

NextSimilarity ==
  \/ PairwiseCompareFiles
  \/ PairwiseCompareFilenames
  \/ CosineSim
  \/ JaccardSim

SpecSimilarity == SimInit /\ [][NextSimilarity]_vars

\* the aggregator with scoring strategies being installed
NextScorer ==
  \/ \E new \in ShardLists(Leaves \cup {"sub"}) : AddShards("agg", new)
  \/ \E s \in Leaves : AddShards("sub", <<s>>)
  \/ ClearShards("agg")
  \/ \E s \in Leaves, qs \in Scorers : LeafSetQueryScorer(s, qs)
  \/ \E qs \in Scorers : SetQueryScorer("agg", qs)

SpecScorer == Init /\ [][NextScorer]_vars

\* the aggregator serving queries over shards whose strategies may fail
NextQueryFail ==
  \/ \E new \in ShardLists(Leaves) : AddShards("agg", new)
  \/ \E s \in Leaves, qs \in Scorers : LeafSetQueryScorer(s, qs)
  \/ \E b \in Batches : IndexStringBuffers("agg", b)
  \/ \E q \in QueryVecs : Query("agg", q)

SpecQueryFail == Init /\ [][NextQueryFail]_vars

\* index calls on the shard engine s1 that may be in flight together
NextInterleaved ==
  \/ \E p \in Procs, n \in Names : IndexBegin("s1", p, n)
  \/ \E p \in Procs : IndexStmt("s1", p)

SpecInterleaved == Init /\ [][NextInterleaved]_vars

\* one aggregator indexing call at a time, followed loop round by loop round
NextPhases ==
  \/ /\ run.agg.pc = "idle"
     /\ \E new \in ShardLists(Leaves) : AddShards("agg", new)
  \/ \E b \in Batches : AggBegin("agg", b)
  \/ AggCall("agg")
  \/ AggCollect("agg")
  \/ AggBroadcast("agg")
  \/ AggMaps("agg")

SpecPhases == Init /\ [][NextPhases]_vars

\* indexing, then queries and postings lists read on both kinds of engine
NextReadOnly ==
  \/ \E new \in ShardLists(Leaves) : AddShards("agg", new)
  \/ \E lc \in BOOLEAN : SetConfig("agg", lc)
  \/ \E b \in Batches : IndexStringBuffers("agg", b)
  \/ \E q \in QueryVecs : Query("agg", q)
  \/ \E s \in Leaves, q \in QueryVecs : LeafQuery(s, q)
  \/ \E t \in Terms : PostingsList("agg", t)
  \/ \E s \in Leaves, t \in Terms : LeafPostingsList(s, t)

SpecReadOnly == Init /\ [][NextReadOnly]_vars

\* shard engines indexing while a caller keeps a list it was given
NextHeld ==
  \/ \E s \in Leaves, t \in Terms : HoldPostingsList(s, t)
  \/ \E s \in Leaves, b \in Batches : IndexFilesHeld(s, b)
  \/ \E s \in Leaves, lc \in BOOLEAN : LeafSetConfig(s, lc)

SpecHeld == Init /\ [][NextHeld]_vars

(* ------------------------------ claims --------------------------------- *)
AggShards == coll["agg"].shards
CallsOf(w) == SelectSeq(w.log, LAMBDA e : e.ev = "call" /\ e.coll = "agg")
NamesDistinct(docs) ==
  \A i, j \in DOMAIN docs : i # j => docs[i].name # docs[j].name
SameEngines(w1, w2) == w1.leaf = w2.leaf /\ w1.coll = w2.coll

\* every shard of c holds the sum of the local N and the per-term sum of the
\* local document frequencies of the shards of c
StatsConsistent(w, c) ==
  LET shards == w.coll[c].shards
      lf(i) == w.leaf[shards[i]]
      sumN == SumOver([i \in DOMAIN shards |-> lf(i).N], DOMAIN shards)
      terms == UNION {DOMAIN lf(i).df_map : i \in DOMAIN shards}
      sumDf(t) == SumOver([i \in DOMAIN shards |-> Get(lf(i).df_map, t, 0)],
                          DOMAIN shards)
  IN \A i \in DOMAIN shards :
       /\ lf(i).global_N = <<sumN>>
       /\ lf(i).global_df_map # <<>>
       /\ DOMAIN lf(i).global_df_map[1] = terms
       /\ \A t \in terms : lf(i).global_df_map[1][t] = sumDf(t)

\* C1: after update_global_stats, and after every aggregator indexing call
\* that returns (index_string_buffers, index_files, index_urls), every
\* current shard holds as global N the sum of the shards' local N and as
\* global df map the per-term sum of the shards' local df maps.
C1_GlobalStatsAfterReconciliation ==
  /\ StatsConsistent(Coll_update_global_stats(W, "agg"), "agg")
  /\ \A b \in OfferedBatches :
       \A w \in {Coll_index_string_buffers(W, "agg", b),
                 Coll_index_files(W, "agg", b)} :
         w.err = NoErr => StatsConsistent(w, "agg")
  /\ \A u \in OfferedUrls :
       LET w == Coll_index_urls(W, "agg", u)
       IN w.err = NoErr => StatsConsistent(w, "agg")

\* two different shards with one document each, holding the reconciled
\* statistics: global N 2 and a term with global document frequency 2
C1_Witness ==
  /\ Len(AggShards) = 2 /\ AggShards[1] # AggShards[2]
  /\ \A i \in 1..2 : leaf[AggShards[i]].N = 1
  /\ StatsConsistent(W, "agg")
  /\ \E t \in Terms : /\ t \in DOMAIN leaf[AggShards[1]].global_df_map[1]
                      /\ leaf[AggShards[1]].global_df_map[1][t] = 2
                      /\ t \in DOMAIN leaf[AggShards[1]].df_map
                      /\ leaf[AggShards[1]].df_map[t] = 1

\* the name -> global id entries the current shards' name maps give
DerivedIds(w, c) ==
  LET shards == w.coll[c].shards
  IN {<<n, make_global_docid(i - 1, get_name_to_docid_map(w, shards[i])[n])>> :
        <<i, n>> \in {p \in (DOMAIN shards) \X Names :
                        p[2] \in DOMAIN get_name_to_docid_map(w, shards[p[1]])}}

\* C2: after a reconciliation pass the aggregator's two maps hold exactly
\* the entries derived from the name maps of the shards that are members
\* then, and nothing left over from an earlier pass (no shard engine having
\* been given the same name twice).
C2_MapsRebuiltFromScratch ==
  LET w == Coll_update_global_stats(W, "agg")
      n2d == w.coll["agg"].name_to_docid_map
      d2n == w.coll["agg"].docid_to_name_map
      ids == DerivedIds(w, "agg")
  IN (\A s \in Leaves : NamesDistinct(leaf[s].docs)) =>
       /\ DOMAIN n2d = {p[1] : p \in ids}
       /\ \A n \in DOMAIN n2d : <<n, n2d[n]>> \in ids
       /\ DOMAIN d2n = {p[2] : p \in ids}
       /\ \A g \in DOMAIN d2n : <<d2n[g], g>> \in ids

\* C3: a second update_global_stats right after a first one changes nothing
\* (global N, global df maps, the aggregator's two maps), and so does the
\* second pass index_files runs after the one index_string_buffers ran.
C3_ReconciliationIdempotent ==
  /\ LET w1 == Coll_update_global_stats(W, "agg")
     IN SameEngines(Coll_update_global_stats(w1, "agg"), w1)
  /\ \A b \in OfferedBatches :
       LET w1 == Coll_index_string_buffers(W, "agg", b)
       IN w1.err = NoErr => SameEngines(Coll_index_files(W, "agg", b), w1)

\* a reconciled collection with documents: a further pass leaves it as it is
C3_Witness ==
  /\ AggShards # <<>>
  /\ \E i \in DOMAIN AggShards : leaf[AggShards[i]].N >= 1
  /\ \A i \in DOMAIN AggShards : leaf[AggShards[i]].global_N # <<>>
                                 /\ leaf[AggShards[i]].global_N[1] >= 2
  /\ DOMAIN coll["agg"].name_to_docid_map # {}
  /\ SameEngines(Coll_update_global_stats(W, "agg"), W)

\* C4: in a shard engine whose documents have pairwise distinct names,
\* docid_to_name(name_to_docid(name)) is the name for every indexed
\* document, and name_to_docid is injective.
C4_NameIdRoundTrip ==
  \A s \in Leaves :
    LET ix == leaf[s]
        n2d == ix.name_to_docid_map
        d2n == ix.docid_to_name_map
    IN NamesDistinct(ix.docs) =>
         /\ \A k \in DOMAIN ix.docs :
              /\ ix.docs[k].name \in DOMAIN n2d
              /\ n2d[ix.docs[k].name] \in DOMAIN d2n
              /\ d2n[n2d[ix.docs[k].name]] = ix.docs[k].name
         /\ \A n1, n2 \in DOMAIN n2d : n1 # n2 => n2d[n1] # n2d[n2]

\* a shard engine holding two documents with different names
C4_Witness ==
  \E s \in Leaves : Len(leaf[s].docs) = 2 /\ NamesDistinct(leaf[s].docs)

\* C5: for every term t and indexed document D of a shard engine, D's id is
\* in postings_list(t) exactly once, with t's count in D's term vector as
\* frequency, when t occurs in that vector (terms compared as the engine's
\* configuration normalises them), and not at all otherwise.
C5_PostingsExactlyOnce ==
  \A s \in Leaves :
    LET ix == leaf[s]
    IN \A k \in DOMAIN ix.docs : \A t \in Terms :
         LET vec == ix.docs[k].vec
             pl == Leaf_postings_list(ix, t)
             at == {j \in DOMAIN pl : pl[j][1] = k - 1}
             keys == {x \in DOMAIN vec :
                        Norm(ix.lowercase, x) = Norm(ix.lowercase, t)}
         IN IF keys = {} THEN at = {}
            ELSE /\ Cardinality(at) = 1
                 /\ \A j \in at :
                      pl[j][2] = SumOver([x \in keys |-> vec[x]], keys)

\* C6: after reconciliation, distinct (shard index, local id) pairs have
\* distinct global ids of the form "{shard_id}-{local_id}", and (names being
\* unique within each shard) docid_to_name maps the global id of every
\* document of every current shard to that document's name; a name held at
\* one place only has that document's global id as its name_to_docid.
C6_GlobalIdsUnique ==
  LET w == Coll_update_global_stats(W, "agg")
      n2d == w.coll["agg"].name_to_docid_map
      d2n == w.coll["agg"].docid_to_name_map
      docs(i) == leaf[AggShards[i]].docs
      places == {p \in (DOMAIN AggShards) \X (1..MaxDocs + 1) :
                   p[2] \in DOMAIN docs(p[1])}
  IN /\ make_global_docid(1, 0) = "1-0"
     /\ \A p, q \in (0..MaxShards) \X (0..MaxDocs) :
          p # q => make_global_docid(p[1], p[2]) # make_global_docid(q[1], q[2])
     /\ (\A i \in DOMAIN AggShards : NamesDistinct(docs(i))) =>
          \A p \in places :
            LET g == make_global_docid(p[1] - 1, p[2] - 1)
                name == docs(p[1])[p[2]].name
            IN /\ g \in DOMAIN d2n
               /\ d2n[g] = name
               /\ (\A q \in places : q # p => docs(q[1])[q[2]].name # name)
                    => n2d[name] = g

\* two different shards whose documents share name and local id, both found
\* under their own global id in the reconciled aggregator
C6_Witness ==
  /\ Len(AggShards) = 2 /\ AggShards[1] # AggShards[2]
  /\ \A i \in 1..2 : Len(leaf[AggShards[i]].docs) = 1
  /\ leaf[AggShards[1]].docs[1].name = leaf[AggShards[2]].docs[1].name
  /\ {"0-0", "1-0"} \subseteq DOMAIN coll["agg"].docid_to_name_map
  /\ \A g \in {"0-0", "1-0"} :
       coll["agg"].docid_to_name_map[g] = leaf[AggShards[1]].docs[1].name

\* the calls of w are one per shard owning items of the batch, each with
\* exactly that shard's items in input order, and reconciliation follows
Routed(w, method, batch, key(_)) ==
  LET co == coll["agg"]
      calls == CallsOf(w)
      mine(sid) == SelectSeq(batch, LAMBDA it : shard_of(co, key(it)) = sid)
      to(sid) == {j \in DOMAIN calls : calls[j].shard_id = sid}
  IN /\ \A j \in DOMAIN calls : /\ calls[j].method = method
                                /\ calls[j].shard_id \in 0..Len(co.shards) - 1
     /\ \A sid \in 0..Len(co.shards) - 1 :
          IF mine(sid) = <<>> THEN to(sid) = {}
          ELSE /\ Cardinality(to(sid)) = 1
               /\ \A j \in to(sid) : calls[j].items = mine(sid)
     /\ SumOver([j \in DOMAIN calls |-> Len(calls[j].items)], DOMAIN calls)
          = Len(batch)
     /\ w.log # <<>>
     /\ w.log[Len(w.log)] = [ev |-> "update_global_stats", coll |-> "agg"]
     /\ \A j, k \in DOMAIN w.log :
          (w.log[j].ev = "call" /\ w.log[k].ev = "update_global_stats") => j < k

ItemName(it) == it[1]
UrlKey(u) == u

\* C7: an aggregator indexing call that returns has grouped the batch by
\* shard_of(name): one call per shard owning items, holding exactly its
\* items in input order, none for a shard owning none, every item delivered
\* once, and update_global_stats after the dispatch, on all three paths.
C7_OneBatchedCallPerShard ==
  /\ \A b \in OfferedBatches :
       /\ LET w == Coll_index_string_buffers(W, "agg", b)
          IN w.err = NoErr => Routed(w, "index_string_buffers", b, ItemName)
       /\ LET w == Coll_index_files(W, "agg", b)
          IN w.err = NoErr => Routed(w, "index_string_buffers", b, ItemName)
  /\ \A u \in OfferedUrls :
       LET w == Coll_index_urls(W, "agg", u)
       IN w.err = NoErr => Routed(w, "index_filenames", u, UrlKey)

\* the last call returned after handing one shard two differently named
\* items in one call, or after one call on each of two shards, and
\* reconciled last
C7_Witness ==
  /\ ret.err = NoErr
  /\ \/ \E j \in DOMAIN CallsOf(ret) :
          /\ Len(CallsOf(ret)[j].items) = 2
          /\ CallsOf(ret)[j].items[1] # CallsOf(ret)[j].items[2]
          /\ leaf[AggShards[CallsOf(ret)[j].shard_id + 1]].N = 2
     \/ /\ Len(CallsOf(ret)) = 2
        /\ CallsOf(ret)[1].shard_id # CallsOf(ret)[2].shard_id
  /\ ret.log[Len(ret.log)].ev = "update_global_stats"

\* C8: once set_shard_func(f) was called, every indexing call sends each
\* item to the shard with index f(name).
C8_CustomShardFuncRoutes ==
  LET co == coll["agg"]
  IN co._shard_func # <<>> =>
       /\ \A b \in OfferedBatches :
            LET calls == CallsOf(Coll_index_string_buffers(W, "agg", b))
            IN \A j \in DOMAIN calls : \A i \in DOMAIN calls[j].items :
                 apply_shard_func(co._shard_func[1], co, calls[j].items[i][1])
                   = calls[j].shard_id
       /\ \A u \in OfferedUrls :
            LET calls == CallsOf(Coll_index_urls(W, "agg", u))
            IN \A j \in DOMAIN calls : \A i \in DOMAIN calls[j].items :
                 apply_shard_func(co._shard_func[1], co, calls[j].items[i])
                   = calls[j].shard_id

\* C9: with a collection among its shards, the outer collection's
\* reconciliation and indexing return without error, and the inner
\* collection passes the global statistics it is given on to its shards.
C9_NestedCollectionReconciles ==
  "sub" \in Range(AggShards) =>
    /\ LET w == Coll_update_global_stats(W, "agg")
       IN /\ w.err = NoErr
          /\ \A i \in DOMAIN w.coll["sub"].shards :
               w.leaf[w.coll["sub"].shards[i]].global_N = w.coll["sub"].global_N
    /\ \A b \in OfferedBatches :
         (\A i \in DOMAIN b : b[i][2] # BadBuffer) =>
           (Coll_index_string_buffers(W, "agg", b)).err
              \in {NoErr, "ZeroDivisionError"}

Sorted(results) ==
  \A i \in 1..Len(results) - 1 : results[i][2] >= results[i + 1][2]

\* C10: the list the aggregator's query returns has its scores in
\* non-increasing order, for every query and shard set.
C10_QueryResultsSorted ==
  /\ Sorted(ret.value)
  /\ \A q \in QueryVecs : Sorted(Coll_query(W, "agg", q))

\* a returned result list whose shards answered in increasing score order
C10_Witness ==
  /\ Len(ret.value) >= 2
  /\ ret.value[1][2] > ret.value[2][2]
  /\ \E q \in QueryVecs :
       LET g == gather(W, AggShards, q)
       IN /\ Coll_query(W, "agg", q) = ret.value
          /\ g[1][2] < g[2][2]

Count(seq, x) == Cardinality({i \in DOMAIN seq : seq[i] = x})

\* C11: the aggregator's query hands the caller's query vector to each entry
\* of the shard list once, gives the same answer whatever sharding function
\* is installed, and returns every (name, score) pair as many times as the
\* shards' own answers hold it together: nothing dropped, added or rescored.
C11_QueryIsUnionOfShardResults ==
  \A q \in QueryVecs :
    LET res == Coll_query(W, "agg", q)
        calls == query_calls(coll["agg"], q)
        per(i) == Leaf_query(leaf[AggShards[i]], q)
        all == Range(res) \cup UNION {Range(per(i)) : i \in DOMAIN AggShards}
    IN /\ Len(calls) = Len(AggShards)
       /\ \A i \in DOMAIN calls :
            calls[i] = [shard |-> AggShards[i], query_vec |-> q]
       /\ \A x \in all :
            Count(res, x) = SumOver([i \in DOMAIN AggShards |-> Count(per(i), x)],
                                    DOMAIN AggShards)
       /\ \A f \in ShardFuncs :
            Coll_query([W EXCEPT !.coll["agg"].shard_func = f,
                                 !.coll["agg"]._shard_func = <<f>>], "agg", q)
              = res

\* the last query was answered by two different shards, each with a hit
C11_Witness ==
  /\ Len(AggShards) = 2 /\ AggShards[1] # AggShards[2]
  /\ \E q \in QueryVecs :
       /\ ret.value = Coll_query(W, "agg", q)
       /\ \A i \in 1..2 : Leaf_query(leaf[AggShards[i]], q) # <<>>
       /\ Len(ret.value) = 2

\* the shard list names each engine once, and no name is indexed twice
\* anywhere in it
IsSplit(shards) ==
  /\ \A i, j \in DOMAIN shards : i # j => shards[i] # shards[j]
  /\ \A i, j \in DOMAIN shards :
       \A k \in DOMAIN leaf[shards[i]].docs, l \in DOMAIN leaf[shards[j]].docs :
         <<i, k>> # <<j, l>>
           => leaf[shards[i]].docs[k].name # leaf[shards[j]].docs[l].name

\* one engine with the aggregator's configuration indexing, in shard order,
\* the documents of the first k shards
RECURSIVE index_all(_, _, _)
index_all(ix, docs, k) ==
  IF k = 0 THEN ix
  ELSE index_doc(index_all(ix, docs, k - 1), docs[k].name, docs[k].vec)
RECURSIVE SingleEngine(_)
SingleEngine(k) ==
  IF k = 0 THEN [NewLeaf EXCEPT !.lowercase = coll["agg"].lowercase]
  ELSE index_all(SingleEngine(k - 1), leaf[AggShards[k]].docs,
                 Len(leaf[AggShards[k]].docs))

\* the aggregated list is the shards' lists one after the other, in shard
\* order, with "{shard_id}-{local_id}" ids
PostingsConcatenated(w, t) ==
  LET pl == Coll_postings_list(w, "agg", t)
      loc(i) == Leaf_postings_list(leaf[AggShards[i]], t)
      off(i) == SumOver([h \in 1..i - 1 |-> Len(loc(h))], 1..i - 1)
  IN /\ Len(pl) = off(Len(AggShards) + 1)
     /\ \A i \in DOMAIN AggShards : \A j \in DOMAIN loc(i) :
          pl[off(i) + j] = <<make_global_docid(i - 1, loc(i)[j][1]), loc(i)[j][2]>>

\* one entry for each document holding the term, none for the others
OneEntryPerDocument(w, t) ==
  LET pl == Coll_postings_list(w, "agg", t)
      lc == coll["agg"].lowercase
      holders == {p \in (DOMAIN AggShards) \X (1..MaxDocs + 1) :
                    /\ p[2] \in DOMAIN leaf[AggShards[p[1]]].docs
                    /\ \E x \in DOMAIN leaf[AggShards[p[1]]].docs[p[2]].vec :
                         Norm(lc, x) = Norm(lc, t)}
  IN /\ Len(pl) = Cardinality(holders)
     /\ \A p \in holders :
          Cardinality({j \in DOMAIN pl :
             pl[j][1] = make_global_docid(p[1] - 1, p[2] - 1)}) = 1

\* ids translated to names: the same (name, frequency) pairs, as often, as
\* in the one engine holding all the documents
SameAsSingleEngine(w, t) ==
  LET pl == Coll_postings_list(w, "agg", t)
      d2n == w.coll["agg"].docid_to_name_map
      one == SingleEngine(Len(AggShards))
      opl == Leaf_postings_list(one, t)
      named == [j \in DOMAIN pl |-> <<d2n[pl[j][1]], pl[j][2]>>]
      onamed == [j \in DOMAIN opl |->
                   <<one.docid_to_name_map[opl[j][1]], opl[j][2]>>]
  IN /\ \A j \in DOMAIN pl : pl[j][1] \in DOMAIN d2n
     /\ \A x \in Range(named) \cup Range(onamed) :
          Count(named, x) = Count(onamed, x)

\* C12: for documents split across the shards of a reconciled aggregator,
\* postings_list(term) is the concatenation in shard order of the shards'
\* lists with ids rewritten to "{shard_id}-{local_id}", has one entry per
\* document holding the term, and names the same (name, frequency) pairs as
\* one engine that indexed all the documents.
C12_AggregatedPostings ==
  LET w == Coll_update_global_stats(W, "agg")
  IN IsSplit(AggShards) =>
       \A t \in Terms : /\ PostingsConcatenated(w, t)
                        /\ OneEntryPerDocument(w, t)
                        /\ SameAsSingleEngine(w, t)

\* the value the engine o holds for the option
ConfigOf(w, o) == IF IsLeaf(o) THEN w.leaf[o].lowercase ELSE w.coll[o].lowercase
\* every member shard of agg holds the aggregator's value of the option
ConfigShared(w) ==
  \A i \in DOMAIN w.coll["agg"].shards :
    ConfigOf(w, w.coll["agg"].shards[i]) = w.coll["agg"].lowercase

\* C13: set_config and update_config on the aggregator set the option on the
\* aggregator and on every member shard; add_shards appends the new shards
\* configured as the aggregator is; so every member shard always holds the
\* aggregator's value of the option.
C13_ConfigPropagates ==
  /\ ConfigShared(W)
  /\ \A lc \in BOOLEAN :
       \A w \in {set_config(W, "agg", lc), update_config(W, "agg", lc)} :
         /\ w.coll["agg"].lowercase = lc
         /\ w.coll["agg"].shards = AggShards
         /\ ConfigShared(w)
  /\ \A new \in ShardLists(Leaves \cup {"sub"}) :
       Len(AggShards) + Len(new) <= MaxShards =>
         LET w == add_shards(W, "agg", new)
         IN /\ w.coll["agg"].shards = AggShards \o new
            /\ w.coll["agg"].lowercase = coll["agg"].lowercase
            /\ ConfigShared(w)

\* a shard engine that was configured the other way round before it was
\* added is a member and holds the aggregator's non-default value
C13_Witness ==
  /\ coll["agg"].lowercase = FALSE
  /\ Len(AggShards) = 2
  /\ \E s \in Leaves : s \in Range(AggShards) /\ leaf[s].lowercase = FALSE
  /\ \E s \in Leaves : s \notin Range(AggShards) /\ leaf[s].lowercase = TRUE

\* C14: in a shard engine, doc_freq(term) is read from the global map once
\* one was supplied (an empty one too) and from the local map before, 1 for
\* a term the map read lacks; query takes the global N once one was supplied
\* and the local N before; doc_len of an unseen docid is 0.
C14_GlobalStatisticsPreferred ==
  \A s \in Leaves :
    LET ix == leaf[s]
    IN /\ \A t \in Terms :
            get_doc_freq(ix, t) =
              IF ix.global_df_map # <<>> THEN Get(ix.global_df_map[1], t, 1)
              ELSE Get(ix.df_map, t, 1)
       /\ query_N(ix) = IF ix.global_N # <<>> THEN ix.global_N[1] ELSE ix.N
       /\ \A d \in 0..MaxDocs + 1 :
            d \notin DOMAIN ix.doc_len_map => get_doc_len(ix, d) = 0

\* no document of the engine holds the term, in either case
NeverIndexed(ix, t) ==
  \A k \in DOMAIN ix.docs : \A x \in DOMAIN ix.docs[k].vec :
    x # t /\ lower(x) # lower(t)

C16_UnknownLookupsRaiseNotFound ==
  /\ \A s \in Leaves :
       /\ \A n \in Names :
            (\A k \in DOMAIN leaf[s].docs : leaf[s].docs[k].name # n)
              => Leaf_name_to_docid(leaf[s], n).err = "NotFound"
       /\ \A d \in 0..MaxDocs + 1 :
            d >= leaf[s].N => Leaf_docid_to_name(leaf[s], d).err = "NotFound"
  /\ \A n \in Names :
       n \notin DOMAIN coll["agg"].name_to_docid_map
         => Coll_name_to_docid(coll["agg"], n).err = "NotFound"
  /\ \A g \in {make_global_docid(MaxShards, 0)} :
       g \notin DOMAIN coll["agg"].docid_to_name_map
         => Coll_docid_to_name(coll["agg"], g).err = "NotFound"

\* every file of the sequence is open and unread
Unread(named_files) ==
  \A i \in DOMAIN named_files : named_files[i][2] = OpenFile(named_files[i][1])

\* one (name_i, name_j, similarity) triple per pair i < j, by i then j, the
\* similarity being the cosine of the two documents' full contents
ExpectedSimilarities(names) ==
  LET pairs == PairsFrom(1, 2, Len(names))
  IN [k \in DOMAIN pairs |->
        <<names[pairs[k][1]], names[pairs[k][2]],
          cosine_sim(term_vec(Corpus[names[pairs[k][1]]]),
                     term_vec(Corpus[names[pairs[k][2]]])).value>>]

\* C17: pairwise_compare_files on n >= 2 freshly opened named files returns
\* the n(n-1)/2 triples (name_i, name_j, cosine similarity of the full
\* contents of documents i and j), ordered by i then j.
C17_PairwiseCompareFiles ==
  Unread(sim.named_files) =>
    LET r == pairwise_compare_files(sim.named_files)
        names == [i \in DOMAIN sim.named_files |-> sim.named_files[i][1]]
        n == Len(names)
    IN /\ r.err = NoErr
       /\ 2 * Len(r.similarities) = n * (n - 1)
       /\ r.similarities = ExpectedSimilarities(names)

\* the two quotients are the same number (both non-negative)
SameNumber(x, y) ==
  /\ x.root = y.root
  /\ IF x.root THEN x.num * x.num * y.den = y.num * y.num * x.den
     ELSE x.num * y.den = y.num * x.den

\* the term vectors {a:1, b:2, c:5} and {a:1, c:2, d:3}
ExampleU == [t \in {"a", "b", "c"} |-> IF t = "a" THEN 1 ELSE IF t = "b" THEN 2 ELSE 5]
ExampleV == [t \in {"a", "c", "d"} |-> IF t = "a" THEN 1 ELSE IF t = "c" THEN 2 ELSE 3]

\* C18: cosine_sim(u, v) is the sum of the products of the weights of the
\* shared terms over the product of the two L2 norms, jaccard_sim(A, B) the
\* sum of the smaller weights of the shared terms over the sum of all
\* weights of A and of B; both are symmetric; for {a:1,b:2,c:5} and
\* {a:1,c:2,d:3} they are 11 / (sqrt(30) * sqrt(14)) and 3 / 14.
C18_SimilarityMeasures ==
  LET u == sim.u
      v == sim.v
      shared == (DOMAIN u) \cap (DOMAIN v)
      sq(x) == SumOver([t \in DOMAIN x |-> x[t] * x[t]], DOMAIN x)
      total(x) == SumOver([t \in DOMAIN x |-> x[t]], DOMAIN x)
      cos == cosine_sim(u, v)
      jac == jaccard_sim(u, v)
  IN /\ cos = cosine_sim(v, u)
     /\ jac = jaccard_sim(v, u)
     /\ cos.err = IF sq(u) = 0 \/ sq(v) = 0 THEN "ZeroDivisionError" ELSE NoErr
     /\ cos.err = NoErr =>
          SameNumber(cos.value,
                     [num |-> SumOver([t \in shared |-> u[t] * v[t]], shared),
                      den |-> sq(u) * sq(v), root |-> TRUE])
     /\ jac.err = IF total(u) + total(v) = 0 THEN "ZeroDivisionError" ELSE NoErr
     /\ jac.err = NoErr =>
          SameNumber(jac.value,
                     [num |-> SumOver([t \in shared |-> Min(u[t], v[t])], shared),
                      den |-> total(u) + total(v), root |-> FALSE])
     /\ (u = ExampleU /\ v = ExampleV) =>
          /\ SameNumber(cos.value, [num |-> 11, den |-> 30 * 14, root |-> TRUE])
          /\ SameNumber(jac.value, [num |-> 3, den |-> 14, root |-> FALSE])
     /\ ret.log = <<[ev |-> "cosine_sim"]>> => ret = [err |-> cos.err, value |-> cos.value, log |-> ret.log]
     /\ ret.log = <<[ev |-> "jaccard_sim"]>> => ret = [err |-> jac.err, value |-> jac.value, log |-> ret.log]

\* cosine_sim has returned 11 / (sqrt(30) * sqrt(14)) for the two vectors
C18_Witness ==
  /\ sim.u = ExampleU /\ sim.v = ExampleV
  /\ ret.log = <<[ev |-> "cosine_sim"]>>
  /\ ret.err = NoErr
  /\ ret.value = [num |-> 11, den |-> 420, root |-> TRUE]

\* the engine's ids are 0..N-1 in insertion order: N documents, the k-th one
\* under id k-1, the id -> name and the length map keyed by exactly 0..N-1
DenseIds(ix) ==
  /\ ix.N = Len(ix.docs)
  /\ DOMAIN ix.docid_to_name_map = 0..ix.N - 1
  /\ DOMAIN ix.doc_len_map = 0..ix.N - 1
  /\ \A k \in DOMAIN ix.docs :
       /\ ix.docid_to_name_map[k - 1] = ix.docs[k].name
       /\ ix.name_to_docid_map[ix.docs[k].name] >= k - 1
  /\ \A n \in DOMAIN ix.name_to_docid_map :
       ix.name_to_docid_map[n] \in 0..ix.N - 1

\* C19: a shard engine's N is the number of documents indexed, every
\* index call that returns adds its batch size to N and gives the batch's
\* documents the next ids in input order, and the id -> name map and the
\* document-length map have exactly the keys 0..N-1.
C19_DenseLocalIds ==
  \A s \in Leaves :
    /\ DenseIds(leaf[s])
    /\ \A b \in OfferedBatches :
         LET r == Leaf_index_files(leaf[s], b)
         IN r.err = NoErr =>
              /\ r.ix.N = leaf[s].N + Len(b)
              /\ DenseIds(r.ix)
              /\ \A i \in DOMAIN b :
                   r.ix.docid_to_name_map[leaf[s].N + i - 1] = b[i][1]
              /\ \A d \in 0..leaf[s].N - 1 :
                   r.ix.docid_to_name_map[d] = leaf[s].docid_to_name_map[d]

\* an engine whose index calls all returned holds two differently named
\* documents, under the ids 0 and 1
C19_Witness ==
  \E s \in Leaves :
    /\ leaf[s].N = 2
    /\ ret.err = NoErr
    /\ leaf[s].docid_to_name_map[0] # leaf[s].docid_to_name_map[1]

\* the position of the first document of the batch that cannot be read
FirstBad(b) ==
  CHOOSE k \in DOMAIN b :
    b[k][2] = BadBuffer /\ \A h \in 1..k - 1 : b[h][2] # BadBuffer

\* C20: when the k-th document of a batch cannot be read, index_files
\* raises and leaves the engine as indexing the first k-1 documents leaves
\* it: no later document is indexed and the failing one leaves no name, id,
\* length or count behind.
C20_FailureKeepsPrefixOnly ==
  \A s \in Leaves : \A b \in OfferedBatches :
    (\E k \in DOMAIN b : b[k][2] = BadBuffer) =>
      LET k == FirstBad(b)
          r == Leaf_index_files(leaf[s], b)
          pre == Leaf_index_files(leaf[s], SubSeq(b, 1, k - 1))
      IN /\ r.err # NoErr
         /\ pre.err = NoErr
         /\ r.ix = pre.ix
         /\ r.ix.N = leaf[s].N + k - 1
         /\ Len(r.ix.docs) = Len(leaf[s].docs) + k - 1
         /\ DOMAIN r.ix.doc_len_map = 0..leaf[s].N + k - 2
         /\ b[k][1] \in DOMAIN r.ix.name_to_docid_map
              => \E h \in DOMAIN r.ix.docs : r.ix.docs[h].name = b[k][1]

\* the last index call raised, and a document indexed before the failure
\* is in the engine
C20_Witness ==
  /\ ret.err = "IOError"
  /\ \E s \in Leaves : leaf[s].N = 1 /\ DOMAIN leaf[s].doc_len_map = {0}

\* the aggregator's indexing call w raised out of a shard call: after the
\* calls logged, the last of which failed, nothing else happened. sids are
\* the shard ids owning items, bad(items) tells whether a call on them raises
FanOutAborted(w, sids, bad(_)) ==
  LET calls == CallsOf(w)
      n == Len(calls)
      called == {AggShards[calls[j].shard_id + 1] : j \in DOMAIN calls}
  IN /\ w.err = "IOError"
     /\ n >= 1 /\ n <= Len(sids)
     /\ \A j \in DOMAIN calls : calls[j].shard_id = sids[j]
     /\ bad(calls[n].items)
     /\ \A j \in 1..n - 1 : ~bad(calls[j].items)
     /\ \A e \in Range(w.log) : e.ev # "update_global_stats"
     /\ w.coll = coll
     /\ \A s \in Leaves :
          /\ w.leaf[s].global_N = leaf[s].global_N
          /\ w.leaf[s].global_df_map = leaf[s].global_df_map
          /\ s \notin called => w.leaf[s] = leaf[s]
     /\ \A j \in 1..n - 1 :
          LET s == AggShards[calls[j].shard_id + 1]
          IN \A i \in DOMAIN calls[j].items :
               \E k \in DOMAIN w.leaf[s].docs :
                 /\ k > Len(leaf[s].docs)
                 /\ w.leaf[s].docs[k].name =
                      (IF calls[j].method = "index_filenames"
                       THEN calls[j].items[i] ELSE calls[j].items[i][1])

BadItems(items) == \E i \in DOMAIN items : items[i][2] = BadBuffer
BadUrls(urls) == \E i \in DOMAIN urls : Corpus[urls[i]] = BadBuffer

\* C21: when a shard's indexing call raises during the aggregator's
\* fan-out, the aggregator's call raises, the shards after it in the fan-out
\* get no call, no reconciliation runs, shards called before keep what they
\* committed, and every shard's global N and df map and the aggregator's
\* two maps are what they were before the call.
C21_FanOutFailureAborts ==
  /\ \A b \in OfferedBatches :
       (AggShards # <<>> /\ BadItems(b)) =>
         FanOutAborted(Coll_index_string_buffers(W, "agg", b),
                       Ascending(DOMAIN sharded_input_map(coll["agg"], b)),
                       BadItems)
  /\ \A u \in OfferedUrls :
       (AggShards # <<>> /\ BadUrls(u)) =>
         FanOutAborted(Coll_index_urls(W, "agg", u),
                       Ascending(DOMAIN sharded_url_map(coll["agg"], u)),
                       BadUrls)

\* the last call raised on its second shard call: the first shard holds the
\* document it was sent, and its global N does not count it
C21_Witness ==
  /\ ret.err = "IOError"
  /\ Len(CallsOf(ret)) = 2
  /\ LET s == AggShards[CallsOf(ret)[1].shard_id + 1]
     IN /\ leaf[s].N >= 1
        /\ leaf[s].global_N # <<leaf[s].N>>
        /\ CallsOf(ret)[1].items[1][1] \notin DOMAIN coll["agg"].name_to_docid_map

\* C22: when a shard's query fails, at the call or while its result
\* sequence is being read, the aggregator's query raises that error and
\* hands back no list; when none fails it returns the merged list.
C22_QueryFailureIsTotal ==
  \A q \in QueryVecs :
    LET r == Coll_query_run(W, "agg", q)
        failing == {i \in DOMAIN AggShards :
                      Leaf_query_run(leaf[AggShards[i]], q).err # NoErr}
    IN IF failing = {}
       THEN r = [err |-> NoErr, value |-> Coll_query(W, "agg", q)]
       ELSE LET i == CHOOSE i \in failing : \A j \in failing : i <= j
            IN r = [err |-> Leaf_query_run(leaf[AggShards[i]], q).err,
                    value |-> <<>>]

\* the last query raised the error of its second shard, read out of that
\* shard's result sequence, after the first shard had answered with a hit
C22_Witness ==
  /\ ret.err = "KeyError" /\ ret.value = <<>>
  /\ Len(AggShards) = 2
  /\ \E q \in QueryVecs :
       /\ Leaf_query_run(leaf[AggShards[1]], q).err = NoErr
       /\ Leaf_query_run(leaf[AggShards[1]], q).yielded # <<>>
       /\ Leaf_query_run(leaf[AggShards[2]], q).err = "KeyError"
       /\ Leaf_query_run(leaf[AggShards[2]], q).yielded # <<>>

\* the leaves a set_query_scorer on agg reaches: its shard engines and those
\* of a collection among its shards
Reached ==
  {s \in Leaves : \/ s \in Range(AggShards)
                  \/ /\ "sub" \in Range(AggShards)
                     /\ s \in Range(coll["sub"].shards)}

\* C28: set_query_scorer on the aggregator installs the strategy on every
\* shard that is a member then, and keeps nothing on the aggregator;
\* add_shards leaves every engine's strategy as it is, so a shard added
\* later keeps its own (tfidf for a fresh engine).
C28_ScorerNotReapplied ==
  /\ NewLeaf.query_scorer = "tfidf"
  /\ \A qs \in Scorers :
       LET w == Coll_set_query_scorer(W, "agg", qs)
       IN /\ w.coll = coll
          /\ \A s \in Leaves :
               w.leaf[s] = IF s \in Reached
                           THEN [leaf[s] EXCEPT !.query_scorer = qs]
                           ELSE leaf[s]
  /\ \A new \in ShardLists(Leaves \cup {"sub"}) :
       Len(AggShards) + Len(new) <= MaxShards =>
         \A s \in Leaves :
           add_shards(W, "agg", new).leaf[s].query_scorer = leaf[s].query_scorer

\* the aggregator's two shard engines hold different strategies: the one
\* installed on the first, the default of a fresh engine on the second
C28_Witness ==
  /\ Len(AggShards) = 2 /\ AggShards[1] # AggShards[2]
  /\ \A i \in 1..2 : IsLeaf(AggShards[i])
  /\ leaf[AggShards[1]].query_scorer = "simple_count"
  /\ leaf[AggShards[2]].query_scorer = "tfidf"

\* the ids handed out at line 128 so far are pairwise different
IdsDistinct ==
  \A i, j \in DOMAIN run.assigned :
    i # j => run.assigned[i][2] # run.assigned[j][2]

\* C24: as long as no two index calls were in flight on the engine at once,
\* no two documents are given the same local id, and between calls the ids
\* are dense; with interleaved calls a state is reached where two different
\* documents have the same id and one id -> name entry has overwritten the
\* other (the witness).
C24_SerialCallsKeepIdsDistinct ==
  ~run.overlapped =>
    /\ IdsDistinct
    /\ InFlight = {} => /\ DenseIds(leaf["s1"])
                        /\ Len(run.assigned) = leaf["s1"].N

\* two calls were in flight at once and both have returned: two documents
\* with different names got the same id, N is 2 and only one id -> name
\* entry is left
C24_Witness ==
  /\ run.overlapped /\ InFlight = {}
  /\ \E i, j \in DOMAIN run.assigned :
       /\ i # j
       /\ run.assigned[i][2] = run.assigned[j][2]
       /\ run.assigned[i][1] # run.assigned[j][1]
  /\ leaf["s1"].N = 2
  /\ Cardinality(DOMAIN leaf["s1"].docid_to_name_map) = 1

\* the events of the kind ev among the first n events of the call
EventsBefore(ev, n) ==
  {i \in 1..(n - 1) : run.agg.events[i].ev = ev}

\* C23: in one aggregator indexing call, a shard's local statistics are read
\* only after the indexing call of every shard with input has returned; a
\* shard is sent global statistics only after the statistics of every shard
\* have been read; and what each shard is sent is the same pair, the sum of
\* all local N and the merge of all local df maps.
C23_PhasesAreOrdered ==
  LET a == run.agg
      \* the shards of the call: the list cannot change while it runs
      shards == IF a.start = <<>> THEN <<>>
                ELSE a.start[1].coll["agg"].shards
  IN \A i \in DOMAIN a.events :
       /\ a.events[i].ev = "read" =>
            {a.events[j].shard_id : j \in EventsBefore("call", i)}
              = DOMAIN a.map
       /\ a.events[i].ev = "send" =>
            /\ {a.events[j].shard_id : j \in EventsBefore("read", i)}
                 = {k - 1 : k \in DOMAIN shards}
            /\ a.events[i].N = collect_global_N(W, shards)
            /\ a.events[i].df_map = collect_global_df_map(W, shards)
            /\ \A j \in EventsBefore("send", i) :
                 /\ a.events[j].N = a.events[i].N
                 /\ a.events[j].df_map = a.events[i].df_map

\* a call over two different shards that both had input has returned: two
\* calls, then two reads, then two sends of N = 2, then the maps
C23_Witness ==
  LET a == run.agg
  IN /\ a.pc = "idle" /\ Len(a.events) = 7
     /\ a.events[7].ev = "maps"
     /\ a.events[2].ev = "call" /\ a.events[4].ev = "read"
     /\ a.events[6].ev = "send" /\ a.events[6].N = 2
     /\ coll["agg"].shards[1] # coll["agg"].shards[2]

\* C25: in every reachable state a query or a postings_list call, on a shard
\* engine or on the aggregator, leaves every engine as it was (term index,
\* name/id maps, df map, document lengths, N and global statistics, the
\* aggregator's maps) and calls no reconciliation.
C25_QueriesAreReadOnly ==
  /\ \A s \in Leaves :
       /\ \A q \in QueryVecs : Leaf_query_call(leaf[s], q).ix = leaf[s]
       /\ \A t \in Terms : Leaf_postings_list_call(leaf[s], t).ix = leaf[s]
  /\ \A q \in QueryVecs : Coll_query_call(W, "agg", q).w = W
  /\ \A t \in Terms : Coll_postings_list_call(W, "agg", t).w = W

\* a query on the aggregator has just returned hits while one of its
\* shards, reconciled and holding documents, has no entry for the queried
\* term "a"
C25_Witness ==
  /\ ret.err = NoErr /\ ret.value # <<>>
  /\ \A k \in DOMAIN ret.value : ret.value[k][1] \in Names
  /\ coll["agg"].name_to_docid_map # EmptyMap
  /\ \E s \in Range(coll["agg"].shards) :
       /\ leaf[s].N > 0 /\ leaf[s].global_N # <<>>
       /\ "a" \notin DOMAIN leaf[s].term_index

\* C26: a list a caller got from postings_list keeps exactly the entries it
\* had when it was handed out, whatever is indexed afterwards.
C26_HeldListKeepsItsEntries ==
  run.held # <<>> => run.held[1].obj = run.held[1].got

\* a caller holds a non-empty list that was the stored one, and the engine
\* has since merged a further document into the list of that term
C26_Witness ==
  /\ run.held # <<>>
  /\ run.held[1].got # <<>>
  /\ ~run.held[1].stored
  /\ LET now == leaf[run.held[1].engine].term_index[run.held[1].key]
     IN /\ Len(now) > Len(run.held[1].got)
        /\ SubSeq(now, 1, Len(run.held[1].got)) = run.held[1].got

\* the indexed documents of the engine ix whose term vector has a term that
\* is T after the engine's case normalisation
Holders(ix, T) ==
  {k \in DOMAIN ix.docs :
     \E t \in DOMAIN ix.docs[k].vec : Norm(ix.lowercase, t) = T}

\* C27: in a shard engine the local df of every term is the number of
\* distinct indexed documents holding the term (after case normalisation),
\* which is also the length of postings_list(term); and a term has a df
\* entry exactly when its postings list is not empty.
C27_LocalDfCountsDocuments ==
  \A s \in Leaves :
    \A T \in {Norm(leaf[s].lowercase, t) : t \in Terms} :
      /\ Get(leaf[s].df_map, T, 0) = Cardinality(Holders(leaf[s], T))
      /\ Len(Leaf_postings_list(leaf[s], T)) = Cardinality(Holders(leaf[s], T))
      /\ T \in DOMAIN leaf[s].df_map <=> Leaf_postings_list(leaf[s], T) # <<>>
====
